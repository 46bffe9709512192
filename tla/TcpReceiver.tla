----------------------------- MODULE TcpReceiver ----------------------------
(***************************************************************************)
(* The receiving host of a connection in eESTABLISHED: the IP task that    *)
(* stores what arrives, acknowledges it and advertises its space, and a    *)
(* task in FreeRTOS_recv.  The IP task has the higher priority             *)
(* (ipconfigIP_TASK_PRIORITY): it may run between two steps of the task,   *)
(* the task not between two of the IP task.                                *)
(***************************************************************************)
EXTENDS TcpNetwork

CONSTANTS
  RxLength,      \* LENGTH of rxStream
  RxWindow,      \* xSize.ulRxWindowLength
  LittleSpace,   \* uxLittleSpace, where the window is closed
  EnoughSpace,   \* uxEnoughSpace, where it is opened again
  MaxRead        \* size of the buffer given to FreeRTOS_recv

ASSUME RxAssumption == /\ RxLength \in Nat \ {0, 1} /\ RxWindow \in Nat
                       /\ LittleSpace \in Nat /\ EnoughSpace \in Nat /\ MaxRead \in Nat \ {0}

VARIABLES
  rx,           \* rxStream
  rxw,          \* the reception window: cur, highest, segs
  bLowWater,
  bWinChange,
  rxCurWin,     \* ulRxCurWinSize
  rxAllowed,    \* ulHighestRxAllowed
  ackMessage,   \* pxAckMessage: is an acknowledgement being delayed
  reading,      \* what the task in FreeRTOS_recv does next
  taken,        \* bytes it has copied, the tail not yet moved
  read          \* history: the bytes returned to the task

socket   == <<rx, rxw, bLowWater, bWinChange, rxCurWin, rxAllowed, ackMessage>>
receiver == <<socket, reading, taken, read>>

ReceiverType ==
  /\ StreamType(rx, Byte)
  /\ rxw.cur \in Number /\ rxw.highest \in Number
  /\ \A s \in rxw.segs : s.seq \in Number /\ s.len \in 1..MSS
  /\ {bLowWater, bWinChange, ackMessage} \subseteq BOOLEAN
  /\ rxCurWin \in Nat /\ rxAllowed \in Number
  /\ reading \in {"idle", "copied", "water", "enough"} /\ taken \in 0..MaxRead
  /\ read \in Seq(Byte \cup {NoByte})

ReceiverInit ==
  /\ rx = EmptyStream(RxLength)
  /\ rxw = [cur |-> First, highest |-> First, segs |-> {}]
  /\ bLowWater = FALSE /\ bWinChange = FALSE /\ ackMessage = FALSE
  /\ rxCurWin = MSS /\ rxAllowed = Plus(First, MSS)
  /\ reading = "idle" /\ taken = 0 /\ read = <<>>
-----------------------------------------------------------------------------
\* prvTCPReturnPacket: the packet that goes out, and what it leaves in the socket.
WinSize(stream, curWin, lowWater) ==
  LET space == IF lowWater THEN 0 ELSE Lesser(curWin, RxWindow)
  IN IF space < MSS /\ FrontSpace(stream) >= MSS THEN MSS ELSE space

ReturnPacket(stream, w, curWin, lowWater, sack) ==
  LET space == WinSize(stream, curWin, lowWater)
  IN /\ acks' = Append(acks, [ack |-> w.cur, wnd |-> space, sack |-> sack])
     /\ rxAllowed' = Plus(w.cur, space)
     /\ bWinChange' = FALSE /\ ackMessage' = FALSE

\* Fault: the bytes stored ahead are not handed over.
StoreRxDataOnly(stream, check, bytes) ==
  IF check.offset >= 0 THEN StreamAdd(stream, check.offset, bytes, Len(bytes)) ELSE stream

\* prvStoreRxData with lTCPAddRxdata: the stream after a packet.
StoreRxData(stream, check, bytes) ==
  LET s == IF check.offset >= 0 THEN StreamAdd(stream, check.offset, bytes, Len(bytes)) ELSE stream
  IN IF check.user > 0 THEN StreamAdd(s, 0, <<>>, check.user) ELSE s

\* The space prvSendData finds, and whether the acknowledgement may wait.
CurWin(stream, w) ==
  Lesser(FrontSpace(stream), Minus(RxWindow, Minus(w.highest, w.cur)))

MayDelay(w, bytes, sack) ==
  /\ bytes # <<>> /\ sack = <<>>
  /\ Signed(Minus(rxAllowed, w.cur)) >= 2 * MSS

\* prvTCPHandleState for a packet.
HandleData ==
  /\ data # <<>>
  /\ LET p     == Head(data)
         len   == Len(p.bytes)
         end   == Plus(p.seq, len)
         high  == IF Signed(Minus(end, rxw.highest)) > 0 THEN end ELSE rxw.highest
         check == IF len = 0 THEN RxRefused(rxw, <<>>) ELSE RxCheck(rxw, p.seq, len, GetSpace(rx))
         w     == [check.w EXCEPT !.highest = high]
         s     == StoreRxData(rx, check, p.bytes)
         low   == check.offset = 0 /\ FrontSpace(s) <= LittleSpace
         win   == bWinChange \/ rxw.cur = Plus(p.seq, 1) \/ (low /\ ~bLowWater)
     IN /\ rx' = s /\ rxw' = w /\ bLowWater' = (bLowWater \/ low)
        /\ IF len = 0 /\ ~win
           THEN UNCHANGED <<acks, bWinChange, rxCurWin, rxAllowed, ackMessage>>
           ELSE /\ rxCurWin' = CurWin(s, w)
                /\ IF MayDelay(w, p.bytes, check.sack)
                   THEN ackMessage' = TRUE /\ bWinChange' = win /\ UNCHANGED <<acks, rxAllowed>>
                   ELSE ReturnPacket(s, w, rxCurWin', bLowWater', check.sack)
  /\ data' = Tail(data)
  /\ UNCHANGED <<reading, taken, read, faults>>

\* xTCPSocketCheck: the delayed acknowledgement or the new window is sent.
SocketCheck ==
  /\ ackMessage \/ bWinChange
  /\ ReturnPacket(rx, rxw, rxCurWin, bLowWater, <<>>)
  /\ UNCHANGED <<rx, rxw, bLowWater, rxCurWin, reading, taken, read, data, faults>>
-----------------------------------------------------------------------------
\* FreeRTOS_recv: the bytes are copied, then the tail moves, then the low-water mark is
\* looked at.  More may arrive before it is cleared.
RecvCopy ==
  /\ reading = "idle" /\ GetSize(rx) > 0
  /\ LET bytes == Peek(rx, 0, MaxRead)
     IN taken' = Len(bytes) /\ read' = read \o bytes
  /\ reading' = "copied"
  /\ UNCHANGED <<socket, network>>

RecvPublish ==
  /\ reading = "copied"
  /\ rx' = Released(rx, taken)
  /\ taken' = 0
  /\ reading' = "water"
  /\ UNCHANGED <<rxw, bLowWater, bWinChange, rxCurWin, rxAllowed, ackMessage, read, network>>

RecvWater ==
  /\ reading = "water"
  /\ reading' = IF bLowWater /\ FrontSpace(rx) >= EnoughSpace THEN "enough" ELSE "idle"
  /\ UNCHANGED <<socket, taken, read, network>>

RecvOpen ==
  /\ reading = "enough"
  /\ reading' = "idle"
  /\ bLowWater' = FALSE /\ bWinChange' = TRUE
  /\ UNCHANGED <<rx, rxw, rxCurWin, rxAllowed, ackMessage, taken, read, network>>

ReceiverNext == HandleData \/ SocketCheck \/ RecvCopy \/ RecvPublish \/ RecvWater \/ RecvOpen
=============================================================================
