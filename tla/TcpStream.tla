------------------------------ MODULE TcpStream -----------------------------
(***************************************************************************)
(* One direction of an established connection between two hosts that both  *)
(* run FreeRTOS+TCP, over a network that loses, duplicates and reorders.   *)
(***************************************************************************)
EXTENDS TcpSender, TcpReceiver

vars == <<sender, receiver, network>>

\* Nothing is under way between the hosts.  A packet and a delayed acknowledgement take less
\* time than the retransmission timer, unless a fault makes them late.
Quiet == data = <<>> /\ acks = <<>> /\ ~ackMessage /\ ~bWinChange

Init == SenderInit /\ ReceiverInit /\ data = <<>> /\ acks = <<>> /\ faults = 0

Send       == (\E n \in 1..MaxChunk : SendCopy(n)) \/ SendPublish
Transmission == SendNew /\ UNCHANGED faults
TimeOut    == Quiet /\ Resend /\ UNCHANGED faults
EarlyOut   == ~Quiet /\ txw.wait # <<>> /\ Poll(1) /\ Fault
AliveProbe == Quiet /\ KeepAlive /\ UNCHANGED faults
Receive    == RecvCopy \/ RecvPublish \/ RecvWater \/ RecvOpen

SenderStep   == Send \/ Transmission \/ TimeOut \/ EarlyOut \/ AliveProbe \/ HandleAck
ReceiverStep == HandleData \/ SocketCheck \/ Receive
Damage       == DamageData \/ DamageAck

Next == \/ SenderStep /\ UNCHANGED receiver
        \/ ReceiverStep /\ UNCHANGED sender
        \/ Damage /\ UNCHANGED <<sender, receiver>>

\* Each line is the weak fairness of an action, stated by the condition under which it is
\* enabled and by the part of the state it alone moves.
Fairness ==
  /\ WF_vars(Send /\ UNCHANGED receiver)
  /\ WF_vars(Receive /\ UNCHANGED sender)
  /\ WF_vars(AliveProbe /\ UNCHANGED receiver)
  /\ WF_acks(acks # <<>> /\ acks' = Tail(acks))
  /\ WF_data(data # <<>> /\ data' = Tail(data))
  /\ WF_vars(SocketCheck /\ UNCHANGED sender)
  /\ \/ []<>~(CanSend \/ (Quiet /\ txw.wait # <<>>))
     \/ []<><<Transmission \/ TimeOut>>_vars

Spec     == Init /\ [][Next]_vars
FairSpec == Spec /\ Fairness
-----------------------------------------------------------------------------
\* Types of the state of both hosts and the network.
TypeOK == SenderType /\ ReceiverType /\ NetworkType

\* The connection is a stream of bytes: FreeRTOS_recv returns what FreeRTOS_send was given,
\* each byte once and in order, whatever the network does and whichever steps of the two
\* tasks the IP tasks interrupt.
Stream == INSTANCE ByteStream

ImplementsStream == Stream!Spec

\* Every byte is read in the end: no closed window, lost window update or lost segment
\* stops the connection.
AllRead == <>(Len(read) = Total)

\* The sender's stream and window are empty again in the end: no segment is left behind as
\* sent, waiting or acknowledged ahead of time.
AllAcked == <>[](txw.segs = <<>> /\ sent = Total /\ GetSpace(tx) = TxLength - 1)

\* What can be read ends where the next segment is expected: the head of rxStream and the
\* number the acknowledgements carry move together, over stored bytes too.
HeadAtCurrent == Plus(First, Len(read) - taken + GetSize(rx)) = rxw.cur

\* A stored segment lies ahead of the number expected and within the stream's free space.
StoredAhead ==
  \A s \in rxw.segs : /\ LessThan(rxw.cur, s.seq)
                      /\ Minus(Plus(s.seq, s.len), rxw.cur) <= GetSpace(rx)

\* The segments follow each other from the first byte not acknowledged, and each one is in
\* exactly one queue until it is acknowledged, in that of the unsent ones until it is sent.
QueuesPartition ==
  LET segs    == {txw.segs[i] : i \in DOMAIN txw.segs}
      queues  == txw.prio \o txw.txq \o txw.wait
      Queued(q)   == {q[i] : i \in DOMAIN q}
      Numbers(ss) == {s.seq : s \in ss}
  IN /\ \A i \in DOMAIN txw.segs : txw.segs[i].seq =
          (IF i = 1 THEN txw.cur ELSE Plus(txw.segs[i - 1].seq, txw.segs[i - 1].len))
     /\ Queued(queues) = Numbers({s \in segs : ~s.acked})
     /\ Len(queues) = Cardinality(Queued(queues))
     /\ Queued(txw.txq) = Numbers({s \in segs : ~s.sent})

\* New data are sent only if, with all that is not acknowledged, they fit the window the
\* receiver has advertised.
WithinWindow ==
  [][txw'.highest # txw.highest => Minus(txw'.highest, txw'.cur) <= wnd']_vars
=============================================================================
