------------------------------ MODULE TcpSender -----------------------------
(***************************************************************************)
(* The sending host of a connection in eESTABLISHED: a task in             *)
(* FreeRTOS_send, and the IP task that cuts the stream into segments,      *)
(* sends and repeats them, and handles acknowledgements.                   *)
(***************************************************************************)
EXTENDS TcpNetwork

CONSTANTS
  TxLength,    \* LENGTH of txStream
  TxWindow,    \* xSize.ulTxWindowLength at the start
  MaxChunk     \* bound: bytes of one call of FreeRTOS_send

ASSUME TxAssumption == TxLength \in Nat \ {0, 1} /\ TxWindow \in Nat /\ MaxChunk \in Nat \ {0}

SEND_REPEATED_COUNT == 8

VARIABLES
  tx,         \* txStream
  txw,        \* the transmission window
  wnd,        \* ulWindowSize, what the peer advertised last
  sent,       \* bytes the task has handed over
  copying     \* bytes copied by FreeRTOS_send, the head not yet moved

sender == <<tx, txw, wnd, sent, copying>>

SegmentType(s) ==
  /\ s.seq \in Number /\ s.len \in 1..MSS /\ s.pos \in 0..TxLength - 1
  /\ s.sent \in BOOLEAN /\ s.acked \in BOOLEAN /\ s.count \in Nat /\ s.dups \in Nat

SenderType ==
  /\ StreamType(tx, Byte)
  /\ Len(txw.segs) <= SegCount /\ \A i \in DOMAIN txw.segs : SegmentType(txw.segs[i])
  /\ {txw.cur, txw.highest, txw.next} \subseteq Number
  /\ wnd \in Nat /\ sent \in 0..Total /\ copying \in 0..MaxChunk

SenderInit ==
  /\ tx = EmptyStream(TxLength)
  /\ txw = NewTxWindow(First, TxWindow)
  /\ wnd = MSS
  /\ sent = 0 /\ copying = 0
-----------------------------------------------------------------------------
\* FreeRTOS_send: the bytes that find room are copied, then the head moves.  The IP task may
\* run in between.
SendCopy(n) ==
  /\ copying = 0
  /\ n <= Total - sent
  /\ Room(tx, 0, n) > 0
  /\ copying' = Room(tx, 0, n)
  /\ tx' = Copied(tx, 0, [k \in 1..copying' |-> sent + k])
  /\ UNCHANGED <<txw, wnd, sent, network>>

SendPublish ==
  /\ copying > 0
  /\ tx' = Advanced(tx, 0, copying)
  /\ sent' = sent + copying
  /\ copying' = 0
  /\ UNCHANGED <<txw, wnd, network>>
-----------------------------------------------------------------------------
\* prvTCPAddTxData: what lies between mid and head goes to the window.
AddTxData(stream, w) ==
  LET add == TxAdd(w, MidSpace(stream), stream.mid, stream.LENGTH)
  IN IF MidSpace(stream) = 0 THEN [tx |-> stream, w |-> w]
     ELSE [tx |-> MoveMid(stream, add.done), w |-> add.w]

\* prvTCPPrepareSend, once: the data are copied from the stream, the tail stays.
PrepareSend(a) ==
  LET get == TxGet(a.w, a.wnd, a.due > 0)
      s   == Segment(get.w, get.seq)
      old == a.w.prio = <<>> /\ s.count > 1
  IN IF get.seq = None THEN [a EXCEPT !.more = FALSE]
     ELSE [a EXCEPT !.w = get.w, !.due = IF old THEN @ - 1 ELSE @,
                    !.out = Append(@, [seq |-> s.seq, bytes |->
                              Peek(a.tx, Distance(a.tx, a.tx.tail, s.pos), s.len)])]

\* prvTCPSendRepeated: segments go out until there is none to send.  due is the number of
\* waiting segments whose timer has run out.
SendRepeated(stream, w, window, due, rounds) ==
  Repeat(LAMBDA a, i : IF a.more THEN PrepareSend(a) ELSE a,
         [tx |-> stream, w |-> w, wnd |-> window, due |-> due, out |-> <<>>, more |-> TRUE],
         rounds)

\* xTCPSocketCheck, when the task has called FreeRTOS_send or the socket's timer has run out.
Poll(due) ==
  LET add == AddTxData(tx, txw)
      run == SendRepeated(add.tx, add.w, wnd, due, SEND_REPEATED_COUNT)
  IN /\ tx' = run.tx /\ txw' = run.w
     /\ data' = data \o run.out
     /\ UNCHANGED <<wnd, sent, copying, acks>>

\* New data go out; what waits too long for its acknowledgement goes out again.
CanSend == \/ txw.prio # <<>> \/ TxHasSpace(txw, wnd)
           \/ MidSpace(tx) > 0 /\ (Open(txw) \/ Len(txw.segs) < SegCount)
SendNew == CanSend /\ Poll(0)
Resend  == \E due \in 1..Len(txw.wait) : Poll(due)

\* A segment waits for the window to open, and nothing is heard for the keep-alive interval: a
\* segment without data, one before the next byte, asks for an acknowledgement.  (The probes of
\* an idle connection are left out.)
Probing == /\ txw.wait = <<>> /\ txw.prio = <<>> /\ txw.txq # <<>>
           /\ ~TxHasSpace(txw, wnd) /\ MidSpace(tx) = 0

\* Fault: the probe carries the number of the next byte.
KeepAliveNext ==
  /\ Probing
  /\ data' = Append(data, [seq |-> txw.highest, bytes |-> <<>>])
  /\ UNCHANGED <<sender, acks>>

KeepAlive ==
  /\ Probing
  /\ data' = Append(data, [seq |-> Minus(txw.highest, 1), bytes |-> <<>>])
  /\ UNCHANGED <<sender, acks>>

\* An acknowledgement arrives: prvCheckOptions for the selective one, then
\* prvHandleEstablished, which sends what has become possible.
HandleAck ==
  /\ acks # <<>>
  /\ LET a    == Head(acks)
         sack == IF a.sack = <<>> THEN [w |-> txw, confirmed |-> 0]
                 ELSE TxSack(txw, a.sack[1], a.sack[2])
         ack  == TxAck(sack.w, a.ack)
         free == Released(Released(tx, sack.confirmed), ack.confirmed)
         add  == AddTxData(free, ack.w)
         run  == SendRepeated(add.tx, add.w, a.wnd, 0, 1 + SEND_REPEATED_COUNT)
     IN /\ tx' = run.tx /\ txw' = run.w /\ wnd' = a.wnd
        /\ data' = data \o run.out
  /\ acks' = Tail(acks)
  /\ UNCHANGED <<sent, copying, faults>>
=============================================================================
