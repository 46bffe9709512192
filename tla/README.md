# A verification of ROjal_MQTT_Client

ROjal_MQTT_Client is an MQTT 3.1.1 client library in one C file (`src/mqtt.c`,
paths here are relative to the repository's root) with two programs built on it:
a command line client for POSIX (`test/cmdline`, with the socket thread of
`test/socket_read_write_lib`) and four tasks of a FreeRTOS demo
(`FreeRTOS_example/.../DemoTasks/TCPEchoClient_SeparateTasks.c`), the latter with
the operating system and the network stack it runs on.
This directory holds TLA+ models of the library, of the thread that feeds it, of
its packets, of the FreeRTOS tasks, of the TCP connection under them and of the
queue and scheduler under both, the TLC configurations that check them, and
proofs. Line numbers are those of `src/mqtt.c` unless
another file is named.

## The system

| part | state | operations | who talks to whom |
|---|---|---|---|
| Client: API and state machine (`mqtt.c` 1510-1878, 1382-1504) | `g_shared_data` and what it points to: connection state, packet counter, keepalive time, time to the next ping, subscribe status, one buffer, callbacks | `mqtt_connect`, `mqtt_disconnect`, `mqtt_publish`, `mqtt_publish_buf`, `mqtt_subscribe`, `mqtt_keepalive`, `mqtt_receive` | called by application threads, `mqtt_receive` by the reading thread; calls `out_fptr` and the application's callbacks; no lock |
| Packets (`mqtt.c` 340-900, 910-1300) | none | encode and decode the fixed header, PUBLISH, SUBSCRIBE, CONNECT, SUBACK, CONNACK | called by the client's actions, works in the shared buffer |
| Socket reading thread (`test/socket_read_write_lib`) | socket, running flag, buffer and byte counts | `socket_initialize`, `socket_receive_thread`, `socket_write`, `stop_reading_thread` | TCP on one side, `mqtt_receive` on the other |
| Command line client (`test/cmdline/cmdline.c`) | options | connect, publish or subscribe, then the keepalive loop | calls the API from one thread, the reading thread runs beside it |
| FreeRTOS tasks (`TCPEchoClient_SeparateTasks.c`) | `xSocket`, `lShuttingDown`, a queue of length one | tasks Connect, Receive, Alive, Publish | Connect opens a socket and hands it to three tasks through the queue; Receive calls `mqtt_receive`, `connected_cb` on it calls `mqtt_subscribe` |
| TCP connection (`FreeRTOS-Plus-TCP`: `FreeRTOS_Stream_Buffer`, `FreeRTOS_TCP_WIN.c`, parts of `FreeRTOS_TCP_IP.c` and `FreeRTOS_Sockets.c`) | two stream buffers, a reception and a transmission window for each socket, flags | `FreeRTOS_send`, `FreeRTOS_recv`, and in the IP task: a packet arrives, a timer runs out, a user asks | tasks on one side of the stream buffers, the IP task on the other, no lock; packets to the peer |
| Kernel (`FreeRTOS/Source/queue.c`, `tasks.c`, `list.c`) | ready, delayed and event lists, tick count, queues with lock counts, mutex holders | send, receive, peek, give, take, delay; send and receive from interrupts; the tick | every task and interrupt; critical sections and the suspended scheduler are its two kinds of lock |
| Platform macros, tests, Unity, the rest of the kernel and of the network stack, file and command line stacks | | | not modelled, see below |

What makes it hard:

- Every API function and `mqtt_receive` read and write one structure from
  different threads without a lock. The state of the connection is stored by the
  caller (1560) and by the reader (1418), the timer is loaded and stored by both
  (1636, 1667), every packet is formed in one buffer and sent from it later.
- `mqtt_connect` and `mqtt_subscribe` poll a field with a counter of eight bits
  until the reader changes it, or not.
- The structure outlives a connection; nothing but ACTION_INIT tells the next
  connection from the last.
- Connections are refused, lost, closed by the broker and opened again; a send
  fails after the identifier has been taken and the buffer written.
- The reading thread must find packet boundaries in whatever pieces `recv`
  returns.
- The encoders count a packet's length before they write it, and apart from the
  writing, in several places, next to boundaries where the length field grows.
- On FreeRTOS the socket is handed to three tasks through a queue of one, given up
  by whichever finds it dead, and replaced by a fourth; a task may sit in a call
  on the old one.
- The TCP stack writes data that come early ahead of the head of a ring that a
  task is reading, with sequence numbers that wrap, and must get going again after
  any lost packet, the one that opens the window included.
- Interrupts post to a queue between the moment a task finds it empty and the
  moment it waits; ticks come while the scheduler is suspended.

What correct means for each part:

- client: a connection opens with CONNECT, and only one; SUBSCRIBE identifiers
  are fresh; true is returned for a packet that went out, and for no other;
  broker and client agree on whether the session was accepted; keepalive bounds
  the silence; every call returns; no packet reaches the parser before the data
  it needs is there.
- packets: what is declared is what follows; what is encoded is what is decoded;
  flags say what was asked.
- reading thread: what it delivers is the packets of the stream, whole, in
  order, all of them, without waiting for bytes it does not need; it ends when
  the connection is gone.
- FreeRTOS tasks: no task goes on reading from a connection that has been
  replaced; a connection nothing is wrong with is kept; a dead one is replaced.
- TCP: the bytes read are the bytes sent, each once and in order; all of them
  arrive in the end, and nothing stays behind in windows or buffers; the peer's
  window is respected.
- kernel: a queue is a bounded sequence; no wake-up is lost; a time limit is kept
  from both sides; the most urgent ready task runs; priorities are inherited and
  given back.

`PROJECT.json` lists every place where this could go wrong, with the properties
that watch it.

## Modules

| module | models | lines |
|---|---|---|
| `MqttClient` | the library in a program: application threads, reading thread, connection, broker, time | `mqtt.c` 1310-1352, 1392-1504, 1532-1671, 1697-1878 |
| `MqttSession` | abstract: what the client promises on the wire | |
| `ClientSession` | `MqttClient` implements `MqttSession` | |
| `SocketReader` | the framing loop on one connection | `socket_read_write.c` 38-107 |
| `MqttCodec` | the encoders and decoders | `mqtt.c` 350-879, 1027-1255, 1442-1491 |
| `DemoTasks` | Connect, Receive, Alive and Publish of the FreeRTOS demo, their queue, sockets and links | `TCPEchoClient_SeparateTasks.c` 149-468 |
| `StreamBuffer` | the ring buffer between a task and the IP task | `FreeRTOS_Stream_Buffer.c`, `.h` |
| `TcpWindow` | reception and transmission windows, as operators | `FreeRTOS_TCP_WIN.c` 250-1710 |
| `TcpNetwork`, `TcpSender`, `TcpReceiver` | the two directions of the network, the sending and the receiving host | `FreeRTOS_TCP_IP.c` 499-985, 1689-1974, 2167-2865; `FreeRTOS_Sockets.c` 2213-2628 |
| `ByteStream` | abstract: what a connection promises its two tasks | |
| `TcpStream` | one direction of a connection, which implements `ByteStream` | |
| `KernelTasks` | scheduler, delayed lists, time limits, mutex priorities, as operators on one record | `tasks.c`, `list.c` |
| `BoundedQueue` | abstract: what a queue promises | |
| `KernelQueue` | tasks and interrupts on queues and mutexes; implements `BoundedQueue` | `queue.c` 264-330, 749-1094, 1263-1548, 1723-1997 |
| `KernelRun` | the workloads of the kernel's runs | |
| `MqttClientProofs` | theorems about `MqttClient` and `ClientSession` | |
| `MqttCodecProofs` | theorems about `MqttCodec` | |
| `SocketReaderProofs` | theorems about `SocketReader` | |
| `DemoTasksProofs` | theorems about `DemoTasks` | |
| `TcpWindowProofs` | lemmas: sequence numbers, stream buffers, windows, acknowledgements | |
| `TcpStreamProofs` | theorems about `TcpStream`, which implements `ByteStream` | |
| `KernelQueueProofs` | `KernelQueue` implements `BoundedQueue`; lemmas: what the operators of `KernelTasks` do to the scheduler's record | |
| `KernelInvariantProofs` | theorems about the scheduler under `KernelQueue` | |

### MqttClient

The first seven variables are `MQTT_shared_data_t`, under the code's names
(`bound` says that `g_shared_data` is set). Each thread has a program counter
and the locals of the API function it is in; `linkUp`, `sent`, `taken`, `inbox`
and `session` are the TCP connection and the broker; `owed`, `idle` and
`silence` measure time since the application last reported it, since the last
packet either way, and since the last packet sent.

A step is a piece of code between two points at which another thread can
interfere: `mqtt_packet_cntr++`, `time_to_next_ping_in_ms -= elapsed` and
`time_to_next_ping_in_ms = keepalive_in_ms` are a load and a store each, the two
stores to `keepalive_in_ms` (1554, 1555) are two steps, forming a packet and
sending it are two. The letters of the labels name the function: `c_` connect,
`p_` publish and subscribe, `s_` the end of subscribe, `k_` keepalive, `d_`
disconnect, `t_` the timer reset, `r_` receive. `SharedSteps` run on callers and,
through `connected_cb`, on the reader.

Decisions worth knowing:

- A call with a NULL argument returns an error and changes nothing; it is left
  out. So is `mqtt_connect_` with an input function, which only two tests use.
- `ConnectFill` and `Encode` may fail (the packet may not fit); what fits is the
  business of `MqttCodec`. A failed CONNECT leaves the buffer blank, it was zeroed
  first; a failed PUBLISH or SUBSCRIBE leaves it as it was, or already written.
- On an open link a packet is accepted; on a dead one it may be accepted and
  lost, or refused. `BrokerReads` is a broker of the standard that answers in
  order, and closes the connection it refuses.
- `CallConnect` wants the reader out of the library: both programs shut the old
  socket down and pause before they connect again. `CallSubscribe` and
  `CallKeepalive` want `bound`: mqtt_subscribe returns at once without it, and
  the programs do not call mqtt_keepalive before mqtt_connect.
- A tick is 500 ms, the unit in which the code reckons keepalive. Calls take no
  time on that scale, so time passes while all threads are out of the library.
  The application calls `mqtt_keepalive` within `Period` ticks and reports no
  less time than has passed.
- `MaxSent` bounds the packets and identifiers of a connection, `MaxInbox` the
  broker's packets on their way, `MaxClock` the ticks without a packet from the
  client. They appear in the guards of the calls, the broker and `Tick` only, so
  a call that has begun is never cut off.

### MqttSession and ClientSession

Two variables, the packets of the current connection and the ticks since the
last one, and four actions: open, say, hear, wait. There are no threads, no
timer and no buffer. `ClientSession` maps `log` to `sent` and `quiet` to `idle`;
TLC checks that every step of the client is one of the session's or changes
neither.

### SocketReader

A stream of bytes in which only places are kept: where packets end, how far
bytes have arrived, how far `recv` has taken them. `RecvHeader` is the `recv` of
31 bytes and `get_remainingsize` on the cleared header, `RecvMore` the inner
loop, `RecvFailed` the -1 that is added to the counts, `RecvShort` and `Probe`
the branch for fewer than two bytes. `remaining_bytes` is an unsigned number,
modulo the constant `Modulus`; TLC's integers are no wider than the code's, so
the runs use 2^20, above every sum that does not wrap. Three constants say what
the network does: whether the first piece of a packet holds at least three bytes
(`FirstBytes`), whether packets come together (`Coalesce`), and whether they
stall for longer than the timeout (`Stalls`). Sizes have at most two length
bytes; 130 is not the size of any packet.

### MqttCodec

Operators, one for each function: a packet is the bytes of its fixed header, the
number of bytes after it, and the lengths of its contents. The text of topics and messages is not kept. The state
machine around them makes one call, forms the packet, and reads it back the way
`mqtt_parse_input_stream` does. `CallsOf` has every QoS and retain flag that
`mqtt(ACTION_PUBLISH)` and `mqtt(ACTION_SUBSCRIBE)` take from the application
(1588-1589, 1617); `mqtt_publish`, `mqtt_publish_buf` and `mqtt_subscribe` always
pass QoS 0 and no retain flag (1790-1791, 1822). A call also is a PUBLISH the broker
sends, whose first byte is laid out as chapter 2.2 of the protocol has it, and that
is not how the decoder reads it.

### DemoTasks

Each of the four tasks has a program counter; `xSocket` and `lShuttingDown` are
the code's globals, `queue` the queue of one, `rxSocket` the local in which
Receive keeps the token it took. Sockets are numbered as they are created, so an
old one can be told from a new one; `link` is what the network has made of each,
`inbox` what the broker has sent on it. A step ends where a task may block or be
interrupted. Tasks have two priorities and sleep for a number of ticks; a task
that spins without blocking keeps those below it from running, but not time.

- `socket_write` is declared void and called through a pointer to a function that
  returns the count. What the library reads as the count is undefined, and the
  model chooses any outcome: a sent packet reported as failed and the reverse.
- A `recv` that has begun a packet does not look at `lShuttingDown` and adds its
  errors to its counts (line 399): the model has the state, which need not end.
  `caught` records that a task was in it when the next round began, and the
  properties are said of behaviours without that.
- The library's part is reduced to the state these tasks branch on. Of its timer
  that is whether the next keepalive call sends a ping (`nextPing`): every call, before
  a connection has given it a time, or the one that finds it run out; any packet
  sent or received puts it off (`PutOff`).

### The TCP modules

The sending host is in `TcpSender`, the receiving one in `TcpReceiver`; bytes are
their positions in the stream, so a byte out of place is a wrong number. The IP
task has the higher priority (`ipconfigIP_TASK_PRIORITY`), so its handlers are one
step each, while `FreeRTOS_send` and `FreeRTOS_recv` are two and four: after the
copy and before the index moves, and between the test of the free space and the flags
it raises, the IP task may run. Windows are records, and the
functions of `FreeRTOS_TCP_WIN.c` are operators from a window to a window; a list
of segments is a sequence in the order of the list, a queue a sequence of their
sequence numbers.

- Retransmission timers are not counted. When nothing is on its way, any number
  of waiting segments may be due (`TimeOut`); when something is, a segment being
  due is a fault (`EarlyOut`), one of `MaxFaults`, as is a packet lost, doubled or
  overtaken. A delayed acknowledgement is sent some time before the timers run out.
- The initial window of the sender is one MSS, as the handshake leaves it.
- Not in the model: the keep-alive packets of the receiver and of an idle
  connection, giving up after four probes, FIN and RST, window scaling, full-size
  sending, options other than SACK, zero copy, callbacks and socket events. The
  comparison of `lStored` with the length stored (`FreeRTOS_TCP_IP.c` 2222), which
  resets a connection, does not arise: `TypeOK` and `StoredAhead` bound what is
  accepted by the free space.

### The kernel modules

`KernelTasks` keeps the scheduler's variables in one record and gives the
functions of `tasks.c` as operators on it. `KernelQueue` has the tasks: each is in
one call, and a step is a critical section or what lies between two of them, the
stretch with the scheduler suspended being nine such steps into which interrupts
fall. An interrupt may ask for a context switch at its end, or leave it to the
next tick, as its handler likes. Ready lists are sets: among equal priorities any
task may be next, which allows more than the code's taking of turns.
`entered` and `time` are history: when a time limit began, and the ticks that have
come, also those the scheduler has not counted yet.

What the tasks do is one of five programs (`Various` in `KernelRun`), chosen at the
start: readers with interrupts that send, tasks that peek beside one that receives,
writers with interrupts that receive, senders to both ends beside a receiver, and
owners of a mutex who also sleep. A task gives a mutex only when it holds it, which
`xTaskPriorityDisinherit` asserts.

## Runs that pass

| run | question | bounds, and why they are enough |
|---|---|---|
| `client_core` | the safety invariants, and `ImplementsSession`, the API in any order | one caller and the reader, three packets a connection, any number of connections: a CONNECT, a packet that is disturbed, and one after it; keepalive off and at 1 s, one tick more than the deadline of 3 |
| `client_keepalive` | the timer (`TrafficBound`) | K = 2 s, reports of 1 or 2 ticks, eight ticks: beyond the bound of 5 ticks, so that it can be broken |
| `client_callback` | `connected_cb` subscribing on the reader's thread; every call returns | two packets: CONNECT and whichever of the callback's and the caller's comes first, or both on the next connection; a timeout of 26 s, which the eight bits make four rounds |
| `reader_framing` | delivery, framing and the end of the thread | packets of 2, 33 and 140 bytes: in the first `recv`, longer than it, with two length bytes; all cuts into pieces; close and reset at any moment |
| `codec_round_trip` | all encoders and decoders | lengths on both sides of 2^7, 2^14, 2^21, 2^28; strings so that packets of every kind cross the first two of these; QoS 0, 1 and 2, with the retain flag and without; buffers that refuse, and that suffice. `PlainFlagsReach` says for which of these flags the broker sees what was asked, and for which it does not |
| `demo_tasks` | does Receive ever read a connection that has been replaced (`FreshReader`), does the Connect task ever give up a connection nothing was wrong with and no task complained about (`HealthyKept`) | two sockets, that is one replacement; a receive or a send waits one tick, a publish comes every tick, the Connect task waits two before it tries again, keepalive every two, so that it outlives a round; `socket_write` returns anything; a link may refuse, fall silent, close or be reset at any moment; `Uncaught` as a CONSTRAINT |
| `tcp_stream` | the data path of a connection: `ImplementsStream`, `HeadAtCurrent`, `StoredAhead`, `QueuesPartition`, and that it never stops: `AllRead`, `AllAcked` | five bytes in segments of at most two, numbers modulo 32 from 29 on, so that they wrap after the third; rings of 5, smaller than the stream, so that they wrap and the window closes; one fault of any kind at any place: enough for a gap, an early segment, a selective acknowledgement, a lost window update |
| `kernel_queue` | the queue implements `BoundedQueue`, wake-ups, time limits, inheritance, and who runs | three tasks of three priorities and the idle task; a queue of two and a mutex; eight tick values with a wrap at the first tick; three ticks, more than the shortest limits; two items moved by interrupts while the queue is locked. Five ticks were run once, 2.8 million states, with the same result |

`CHECK_DEADLOCK` is off throughout: the model stops where a bound is reached, a
reading thread stops when its connection is gone, and a codec call ends.

Every property has a fault in `PROJECT.json`, a change of one operator of the
kind a programmer makes, under which TLC finds it violated. The operators for
the faults stand before what they replace, with a comment that begins "Fault".

### Fairness

`FairSpec` of `MqttClient` says that a thread inside the library goes on: the
library has no locks to wait for, and both programs run under preemptive
schedulers. Nothing is assumed of the broker, of the network, of time or of the
callers: they may stay silent or outside. `SocketReader`'s `FairSpec` says the
same of the reading thread; `recv` with nothing to return comes back after ten
seconds (`SO_RCVTIMEO`), which is a step of `RecvShort`.

`TcpStream`'s `FairSpec` says that the two tasks go on, that a packet on its way
arrives unless a fault hits it, and that the IP task sends what it may and its
retransmission timers run out. When it may send is written out as a condition, with
`[]<>` of a step or of the opposite, since TLC would have to search for an enabled
step in every state. Nothing is assumed of faults: there
may be `MaxFaults` of them or none. `DemoTasks`' `FairSpec` is for `ShutdownFollows`
alone: tasks go on, time passes, a connection that was given up is ended by its
peer; the Connect task, which sits below the others in priority for most of a
round, gets its turn when it is offered again and again. The kernel's runs ask for
no liveness: `NoLostWakeup` and `OnTime` say as invariants what must be there for a
task to be woken.

## What the code does otherwise than it says

Each of these is a run that TLC finds violated, on behaviour the code has. The
statement it contradicts is quoted in `PROJECT.json`.

| run | where | what happens |
|---|---|---|
| `refusal_lost` | 1560 | the reader handles a refusing CONNACK before the caller stores STATE_CONNECTED; the state stays connected |
| `demo_shutdown` | `TCPEchoClient_SeparateTasks.c` 436 | the Alive and the Publish task raise `lShuttingDown` when the library refuses their packet, but leave `xSocket`, which is what the Connect task waits for (324): nobody closes the connection and no new one is made |
| `tcp_wrap` | `FreeRTOS_TCP_WIN.c` 1172 | `prvTCPWindowTxHasSpace` compares two sequence numbers as plain numbers; when the highest one has wrapped and the current one has not, it takes nothing to be outstanding, and more is sent than the peer's window holds. With `First = 3`, where no number wraps, `WithinWindow` holds |
| `kernel_yield` | `queue.c` 849 | a task that gives up a mutex and the priority it had inherited asks for a context switch only if no task was woken, or a more urgent one was; the woken one may be no more urgent while a third, which had stopped waiting, is: it stays ready until the next tick. Two tasks on the mutex are not enough for this, `kernel_queue` passes with them |

Nine more of the kind are configurations to run by hand, each with the one property
it breaks:

| configuration | where | what happens |
|---|---|---|
| `ConnectTrue.cfg` of `MqttClient` | 1560 | `mqtt_connect` returns true as soon as CONNECT is sent, before the broker has answered, and also when it goes on to refuse |
| `SubscribeWait.cfg` of `MqttClient` | 1624 | `mqtt_subscribe` does not wait for SUBACK: the sender sets the flag it waits for |
| `BrokerSilence.cfg` of `MqttClient` | 1666 | packets received put off the ping, a client that only receives is silent beyond one and a half keepalive times, shown at the ratios of the FreeRTOS demo's settings |
| `SharedBuffer.cfg` of `MqttClient` | 1578 | `connected_cb`'s `mqtt_subscribe` overwrites the packet that `mqtt_publish` has formed and not sent yet |
| `ReaderCoalesced.cfg` of `SocketReader` | `socket_read_write.c` 81 | two packets in one `recv`: the count wraps and nothing is delivered any more |
| `CodecRetain.cfg` of `MqttCodec` | 581 | `encode_publish` gives its retain flag to `encode_fixed_header` as the duplicate flag and the other way round: a message to be retained goes out as QoS 1 and is not retained |
| `CodecLevel.cfg` of `MqttCodec` | `mqtt.h` 132 | the bit fields of the first byte have dup in bit 1 and QoS in bits 2 and 3, where the protocol has QoS in bits 1 and 2 and dup in bit 3: QoS 1 goes out as QoS 2, QoS 2 as QoS 0 with the duplicate flag |
| `CodecSubscribe.cfg` of `MqttCodec` | 781 | a SUBSCRIBE at QoS 1 or 2 counts its packet identifier twice and declares two bytes more than it has |
| `CodecGranted.cfg` of `MqttCodec` | 869 | a granted subscription is reported as an error, a refused one as success |

Other places where the code departs from its comments or from MQTT 3.1.1 are
plain from one operator of the models, and are no runs of their own:

- the first SUBSCRIBE of a connection has identifier 0 (1620, `TakeId`);
- the state is connected after `mqtt_disconnect` and packets go out (1532,
  `DisconnectSend`);
- sizes from 2^28 to 2^31 - 2 are encoded in five length bytes, which the decoder
  refuses (354, `SetSize` and `GetSize`);
- only the fixed header of a PUBLISH is compared with the buffer (589), and the
  space left for a CONNECT does not reckon with its fixed header (1041);
- a PUBLISH of a broker at QoS 1 is read as one at QoS 0 with the duplicate flag,
  and its identifier as the first two bytes of the message (`mqtt.h` 132);
- a PUBLISH without a message is an error to the receiver (677).

So `codec_round_trip` has messages with a payload, of a broker those at QoS 0, which is
what it sends to a client that subscribes at QoS 0; a SUBSCRIBE at another level is
malformed, so no more than that is granted. Publishing is checked at every level and
with any flags. `reader_framing` holds under
conditions, too: at least three bytes of a packet, or all of it, come together
(`FirstBytes`: a single byte is dropped, two of three header bytes declare a
shorter packet); a packet starts after the last one has been read (`Coalesce`);
and none stalls for ten seconds (`Stalls`: the -1 of `recv` is added to the
counts, and the boundary moves into the next packet).

## Proofs

Thirty-two theorems, each for every value of the constants that the module's named
assumptions allow. Where a theorem needs more, its statement has a named
hypothesis, which is explained with it.

### The client

For any number of connections, packets and ticks, and any keepalive times,
timeouts and reported times:

- `TypeCorrect` (`MqttClientProofs`): `Spec => []TypeOK`, for any set of callers.
  `TypeOK` is not inductive: `Encode` stores an identifier that `TakeId` loaded
  into a local that elsewhere holds any integer. `TypeInv` adds `CallTypes`:
  in a thread about to do this, the local is a natural number.
- `OpensWithConnect` and `ReaderFindsData` (`MqttClientProofs`):
  `SoleCaller => (Spec => []ConnectFirst)` and the same for `NoNullDeref`, with
  one application thread beside the reader, and with a callback that subscribes
  or none. Nothing in `ConnectFirst` says why: the state may still be connected
  from the last connection when the next is opened. `OpenInv` says it: as long
  as nothing has been sent (`FreshInv`) the broker is silent, the reader out of
  the library, and the state disconnected unless ACTION_INIT is still to come;
  who is opening a connection has sent nothing (`OpeningInv`); who has passed a
  guard on the state sends on a connection that is open (`EngagedInv`); what is
  sent from the shared buffer is CONNECT at the one place and not at the others
  (`BufferInv`); `g_shared_data` is set before anything is sent (`BoundInv`).
- `TrafficBounded` (`MqttClientProofs`): `SoleCaller => (Spec => []TrafficBound)`.
  `TimerInv` relates the timer to the time that has passed: the timer and the
  time without traffic together are within the keepalive time plus what the
  application has not reported yet (`ClockInv`); a thread about to reset the
  timer has just seen a packet (`ThreadTimer`); and what a caller in the middle
  of `mqtt_keepalive` has loaded is as good as the timer itself (`CallerTimer`).
  `Cap` is the keepalive time before 500 ms are taken off it: the reader may load
  it between the two stores, which is why the bound has one tick more than one
  would expect.
- `AcceptedConnects` (`MqttClientProofs`):
  `SoleCaller => (Spec => []AcceptedMeansConnected)`. `StateInv` says that from
  the moment CONNECT is out until the broker refuses, the state is connected or
  the caller is about to store it; `ConnackInv` that a connection the broker
  accepted has no refusing CONNACK on its way or in the parser.
- `IdsUnique` and `TrueSent` (`MqttClientProofs`):
  `SoleCaller /\ Listening /\ Identifiers => (Spec => []UniqueIds)`, and the same
  for `TrueMeansSent`. `RequestInv` is inductive: where a call is tells which
  function it is in (`FunctionInv`), and that tells what `out_fptr` must have
  accepted (`AcceptedInv`); the identifier it has taken is the counter's last
  value and the buffer holds its packet until that is sent (`IdInv`); the counter
  is ahead of every identifier on the wire (`UsedInv`).
- `SessionImplemented` (`MqttClientProofs`): under the same hypotheses
  `Spec => ImplementsSession`. The steps that send are the session's `Open` or
  `Say`, `BrokerReads` and `Tick` its `Hear` and `Wait`, the rest stutter. It takes
  `OpenInv` for "nothing before CONNECT", `UniqueIds` for "a fresh identifier",
  and `TimerInv` with `RateInv` (the keepalive time in use is one that was asked
  for) for how long the session may be quiet.

Each step lemma (`TypeStep`, `OpenStep`, `TimerStep`, `AcceptStep`, `RequestStep`,
`SessionStep`) has one step for each action; what actions have in common (a call
returns, a thread moves on, a packet is sent) is in lemmas of its own.

The hypotheses:

- `SoleCaller`, one application thread beside the reader: the situation of the
  command line client. With a second caller `ConnectFirst` cannot be had: one
  thread passes the state's test while another starts a new connection.
- `Listening`, a `connected_cb` that does not subscribe: such a callback runs on
  the reader's thread and takes identifiers and fills the buffer while the
  caller does (`SharedBuffer.cfg`), so uniqueness and truth are lost with it.
- `Identifiers`, at most 65536 packets with an identifier on a connection: the
  counter has 16 bits and is never compared with those in use. A client that
  does more on one connection reuses them.

### The encoders

For any sizes, flags, lengths of topics, messages and strings, and any buffers
(`MqttCodecProofs`):

- `HeadersReadBack`: `ShortHeaders => (Spec => []HeaderRoundTrip)`, with any QoS and
  any flags.
- `LengthsDeclared`: `ShortPackets => (Spec => []DeclaredLength)`, for PUBLISH with
  any flags, CONNECT, and SUBSCRIBE at QoS 0.
- `PublishesReceived`: `ShortPackets /\ 0 \notin Messages =>
  (Spec => []PublishReceived)`: what `encode_publish` forms at any QoS, and what a
  broker sends at QoS 0.
- `FlagsReachBroker`: `ShortPackets => (Spec => []PlainFlagsReach)`: of all flags
  that can be asked for, a broker reads those of QoS 0 without the retain flag as they
  were meant, and no others. `Reach` works the first byte out bit by bit, once as
  `encode_publish` fills it and once as chapter 2.2 reads it.
- `FlagsMatchStrings`: `Spec => []FlagsMatchPayload`, without hypotheses.

The state machine adds little (`CodecInv`: the packet is the one its encoder forms for
the call, the result what its decoder finds in it); the work is in the operators. The
length field is written by a loop that divides and read by one that multiplies,
recursive functions in the model. `LengthBytesIs` shows that the first exists and
`LengthBytesAre` what its one to four bytes are; `SizeCounted` and `CountedIs` follow
the second byte by byte, and `SizeRead` says that it finds the number and the end of
the field. `FlagsRead` does the same for the first byte. `FillStringsIs` is the
invariant of the loop over the strings of a CONNECT: while there is room, the strings
counted and the bytes filled are those of the parameters so far. Inductions are over a
set of counterexamples, which has a least one (`LeastOf`).

The hypotheses:

- `ShortHeaders` and `ShortPackets`, a remaining length less than 2^28, a packet
  identifier included. From there to
  2^31 - 2 `set_size` writes a fifth byte (`mqtt.c` 354), which `get_size` refuses (415).
- `0 \notin Messages`: an empty message is sent, but the receiver takes it for an
  error (`mqtt.c` 677).

### The reading thread

For any set of packet sizes, any number of packets and any cut of the stream
into pieces, with close and reset at any moment, under `OneByOne`: one packet on
its way at a time, none that stalls for longer than `SO_RCVTIMEO`, and the three
bytes that tell its length in the first piece. Each is necessary: the section
above says what happens without it.

- `ReaderTypes`, `PacketsWhole` and `NoWait` (`SocketReaderProofs`):
  `OneByOne => (Spec => []TypeOK)`, and the same for `DeliveredWhole` and
  `FitsDirectly`. `FrameInv` says where in the stream the thread is for each of
  its places: between packets it stands where one ends (`Between`); inside one,
  the bytes it has and those it waits for add up to the packet (`Inside`), unless
  the connection was reset, when -1 has been added to both; and it delivers
  exactly up to the next end (`Complete`). That the unsigned subtraction does not
  wrap is `ModulusAssumption` and the first piece being part of one packet.

### The kernel

For any tasks, priorities, programs, queues and queue lengths, mutexes, ticks and
lock counts, without hypotheses:

- `QueueIsBoundedSequence` (`KernelQueueProofs`): `Spec => ImplementsBounded`, for
  any tasks, programs, queues and queue lengths, ticks and lock counts. `Ring`
  says that the write position is the one behind the last item, so that the read
  position and the count determine what a queue holds; arithmetic modulo its length
  is in `SlotSteps` and `SlotsDiffer`. `CopyBack`, `CopyFront` and `TakeFront` show
  what `prvCopyDataToQueue` and `prvCopyDataFromQueue` do to the sequence, `SameItems`
  that locking and mutex fields do nothing to it, and a lemma for each step that
  touches a queue puts them together. `CallsOK` is needed for the item and the
  queue that a task in a call names. The scheduler plays no part: the proof holds for
  whatever order critical sections come in.
- `ListsAlwaysAgree` (`KernelInvariantProofs`): `Spec => []ListsAgree`. The
  inductive invariant is `StructureInv`. `Sound`, of the scheduler's record, says
  that each task is in one list. `Places` says who may be where: either the
  scheduler runs, or one task has suspended it and is the only one between
  locking a queue and resuming (`Open`, `Closed`). `WaitOK` says that a task in an
  event list will look at that queue again, `TicksOK` that a task about to wait
  has a limit to measure by.
- `NoWakeupIsLost` (`KernelInvariantProofs`): `Spec => []NoLostWakeup`. The
  invariant the code relies on is nowhere in it, and `NoLostWakeup` is far from
  inductive. `Covered` is a count: while a task waits on a queue, the items (or
  the free places, for a sender) are no more than those that interrupts moved
  while it was locked, for each of which `prvUnlockQueue` will wake one task,
  and the awake tasks that will look at it again. A wake-up moves one
  from the waiting to the awake, a retry consumes one of each. `LooksOK` says what
  a task knows that has found the queue empty under lock: no more has come since
  than the lock has counted.
- `KernelTypes` (`KernelInvariantProofs`): `Spec => []TypeOK`, which for the
  kernel is more than types: no queue over- or underflows, and no task gives back
  more mutexes than it took. `MutexInv` adds to `StructureInv` that a mutex is full
  or held by one task (`HoldersOK`), that who gives one holds it (`MutexCalls`), and
  that `uxMutexesHeld` is the number of mutexes a task holds (`HeldOK`).
- `NoEarlyTimeout` (`KernelInvariantProofs`): `Spec => []NotBefore`, over any
  number of wraps of the tick count and with ticks that are counted late.
  `ClockOK` says that the overflow count times the modulus, plus the tick count,
  plus the ticks pended, is the time that has passed. `TimeOf` says of each call that
  its remaining ticks, from where it last measured, do not end before its time;
  `SinceClock` that the subtraction modulo 2^32 in `xTaskCheckForTimeOut` gives the
  difference of the clocks whenever it is used.
- `OnTimeWhenPrompt` (`KernelInvariantProofs`): `Spec /\ []Prompt => []OnTime`, the
  other half: no task sleeps beyond the time its call was given. `Alarmed` says that
  no tick is missed: every task in the delayed list wakes later than now, and
  `xNextTaskUnblockTime` is no later than the first of them. The tick that would
  end the time of one finds it, over the swap of the two lists at a wrap and through
  the loop in `xTaskResumeAll`; no other step moves what `DueAt` gives, the count at
  which a task wakes (`Undisturbed`). `Timely` bounds that count by the deadline of
  the call, and for this `Measured` says that the ticks left, from where they were
  last measured, do not end after it, and that they are measured from now when the
  task is placed on the event list. Each half needs that nothing is lost in between:
  `TimeOf` has no less time left than the call was given, `Measured` no more.
- The hypothesis `Prompt`: a task comes to `xTaskCheckForTimeOut` before the tick count
  has made a full turn since its time was last measured. It is the code's own: a
  difference modulo 2^32 tells no more, and the test by the overflow count
  (`tasks.c` 3041) does not see two wraps after which the count is below where it was.
  A task that is kept from running that long waits too long. `OnTimeWithinATurn`,
  `MaxTicks < TickMod => (Spec => []OnTime)`, discharges it while fewer ticks come
  than the count has values, wherever it starts; the run's instance is of that kind. TLC
  checked the invariant (`DueInv`) there, and under `Prompt` with more ticks than values,
  before it was proved.

The second part of `KernelQueueProofs` has the lemmas these share: for each operator of
`KernelTasks`, which lists, times, priorities and counts it changes, and that it
keeps `Sound`. Its recursive functions (`Without`, the inner loop of
`prvUnlockQueue`) are unfolded with well-founded recursion on the naturals, and
what they keep is proved from the last index that breaks it.

### The tasks of the FreeRTOS example

For any number of sockets, so of rounds, any times between publishes and pings, and
a `socket_write` that returns what it ought to or anything:

- `DemoTypes` (`DemoTasksProofs`): `Spec => []TypeOK`. At most one token is in the
  queue, and no task names a socket that was not created.
- `ReaderIsFresh` and `HealthyIsKept` (`DemoTasksProofs`):
  `Patient => (Spec => []FreshReader)`, and the same for `HealthyKept`, an action
  property. `xSocket` is the last socket or none, and none from giving it up to
  opening the next (`SocketInv`); who waits in a send waits on a connection gone
  silent (`SendInv`), and a `recv` for no longer than its time (`ReadInv`). While
  Connect sleeps, whoever is in a call on the old socket has no more time left than
  Connect has, so that nobody is by the time the flag is lowered, and Receive is
  back at the queue (`PatienceInv`). Hence all that the tasks hold, the queue
  included, is the last socket (`NewestInv`). Without the first of these two the
  second is not inductive: nothing else stops a late failure from raising the flag
  on the next round.

The hypothesis `Patient`: the pause before the next socket is no shorter than
`xReceiveTimeOut` and `xSendTimeOut` are. In the source they are 5 s
(`TCPEchoClient_SeparateTasks.c` 347), 0.5 s and 2 s (124, 125). The properties are
said of behaviours in which no recv for the rest of a packet outlives its round
(`caught`).

### The TCP connection

For any sizes of segments, buffers and windows, any chunks the tasks send and read
in, any first sequence number, and any number of packets lost, doubled, overtaken or
sent too early, under `Unambiguous`:

- `StreamImplemented` (`TcpStreamProofs`): `Spec => ImplementsStream`. What
  `FreeRTOS_recv` has returned is a prefix of what `FreeRTOS_send` was given.
- `StreamHolds`: `Spec => []StreamInv`, the inductive invariant, from which
  `StreamTypes` (`[]TypeOK`), `ReadUpToCurrent` (`[]HeadAtCurrent`),
  `StoredSegmentsAhead` (`[]StoredAhead`) and `EachInOneQueue`
  (`[]QueuesPartition`) follow, too.

`StreamInv` speaks of positions in the stream, `Off(n)` being the distance of the
number `n` from the first. `SendInv`: what is not acknowledged yet is in its place in
`txStream`, the segments cover it without gaps, and each is in one of the three
queues. `RecvInv`: what was read is the beginning of the stream, `rxHead` stands where
`rxw.cur` does, and what is stored ahead of it is in its place in `rxStream` and within
its free space. `NetInv`: a packet carries the bytes its number says (`Packets`), an
acknowledgement, selective or not, is of bytes that were sent (`Answers`), and
`PieceInv`, the part one does not think of first. The receiver finds stored segments
by their first number and advances over them by their lengths (`FreeRTOS_TCP_WIN.c`
836, 909), which is right only if no two segments overlap without being equal.
`PieceInv` says so: all that the sender keeps, the network carries and the receiver
stores are pieces of one cut of the stream, and the next byte expected is on an edge
of it. That holds because a segment keeps its length as long as it exists: only the
last one is extended (1024), and only until it is sent (1367). The invariant was
checked by TLC in the run's instance before it was proved.

`TcpWindowProofs` has the lemmas on the operators: `xSequenceLessThan` and its
relatives on numbers less than half the numbers apart are the order of positions;
`uxStreamBufferAdd` and `uxStreamBufferGet` put bytes into their slots and move no
others; the loops of the windows (confirming, advancing, acknowledging, fast
retransmission) are recursive functions, which are followed with an invariant from
one round to the next. Induction is by the least number that breaks it (`Upward`).

The hypothesis `Unambiguous`, `Total < Modulus \div 2`: fewer bytes than half the
sequence numbers, in the code 2^31, are sent on the connection; they may start and
wrap anywhere. More cannot be had here: the model's network keeps a packet for as long
as it likes, and one that comes back a turn of the numbers later is taken for another.

### What is only model-checked, and why

- Liveness: out of the prover's reach (`CallsReturn`, `Delivery`, `ReaderEnds`,
  `ShutdownFollows`, `AllRead`, `AllAcked`).
- `HighestRuns` and `Inherited`: true of the programs that `kernel_queue` runs,
  false in general. `kernel_yield` is the counterexample to the first. The second
  fails with a chain of mutexes: a task that waits for one and holds another may
  inherit a priority, and `vTaskPriorityInherit` does not hand it on.

## Not modelled

- Most of the repository's lines are vendored: the FreeRTOS kernel with its ports,
  +TCP with its drivers and servers, +FAT, +CLI, WinPCap, Unity. Of these the models
  have what the MQTT demo's data go through, the data path of a TCP connection and
  the queue under the scheduler. +FAT, +CLI, drivers and the other demos are not
  used by it.
- Of +TCP: opening and closing a connection, ARP, DHCP, DNS, UDP, the servers,
  network buffers. Of the connection's data path, what the section on its modules
  lists.
- Of the kernel: queue sets, overwriting and semaphores other than the mutex,
  notifications, creating, deleting, suspending tasks and setting their priority,
  `timers.c`, `event_groups.c`, the heaps, the ports.
- Beyond the kernel's bounds: a task that is kept from running for a whole turn of
  the tick count (`MaxTicks` is less than `TickMod`), and a lock count that
  overflows its eight bits. An event list is not sorted again when a task in it
  inherits a priority (`tasks.c` 3713): with one mutex no task waits and inherits
  at once.
- The repository's tests: read as statements about the library.
- Argument parsing, printing, the platform's macros.
- The replacement of the socket under a running reading thread: next, below.
- A connection that is closed in the middle of a packet: `recv` returns 0 for
  ever and the inner loop does not end. The model has the state, as one that no
  step leaves, and `ReaderEnds` is said of a thread between packets.

## Plan

Done: all modules above. Left, in this order:

1. `ReaderThreads`: `socket_initialize` and `stop_reading_thread`, two reading
   threads on one `test_socket` and one `read_thread_running`, composed with
   `SocketReader`'s loop. Property: the thread of the last connection takes no
   byte of the next.
2. Opening and closing of a TCP connection, below `TcpStream`; `timers.c` and
   `event_groups.c` on `KernelTasks`; `heap_4.c`.
