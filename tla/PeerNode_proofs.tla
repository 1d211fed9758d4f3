--------------------------- MODULE PeerNode_proofs ---------------------------
(***************************************************************************)
(* Proofs about PeerNode, for every set of users, every number of packets  *)
(* and every combination of actors and faults.                             *)
(***************************************************************************)
EXTENDS PeerNode, TLAPS, SequenceTheorems

USE MaxPacketsAssumption, UsersAssumption, PeerIsChildAssumption

\* The sequences the model builds are sequences of packets.
LEMMA PacketSeqs ==
  /\ \A s \in Seq(Packet), p \in Packet : Append(s, p) \in Seq(Packet)
  /\ \A s, t \in Seq(Packet) : s \o t \in Seq(Packet)
  /\ \A s \in Seq(Packet) : \A k \in 0 .. Len(s) : SubSeq(s, 1, k) \in Seq(Packet)
  /\ <<>> \in Seq(Packet)
  /\ \A s \in Seq(Packet) : Len(s) \in Nat
  BY DEF Packet

\* The packets the actions name are packets.
LEMMA PacketNames ==
  /\ PROT_SHUTDOWN \in Packet /\ FirstPacket \in Packet
  /\ \A n \in 1 .. MaxPackets + 1 : n \in Packet
  BY DEF PROT_SHUTDOWN, FirstPacket, Packet

-----------------------------------------------------------------------------
(* Types of the control locations. *)

\* A step of Message::send keeps the control locations in type.
LEMMA MessageSendPc ==
  ASSUME TypeOK, NEW t \in {"creat", "send", "shut"}, MessageSend(t)
  PROVE  PcTypeOK'
<1> USE DEF TypeOK, PcTypeOK, At, Goto, Threads, Labels, UserLabels, CreatLabels, SendThreadLabels,
            RecvThreadLabels, EdtLabels, ShutLabels, SendLabels, MarkLabels
<1>1. CASE ReadFd(t)  BY <1>1 DEF ReadFd
<1>2. CASE SendBlocked(t)  BY <1>2 DEF SendBlocked
<1>3. CASE SendNothing(t)  BY <1>3 DEF SendNothing, AfterSend
<1>4. CASE SendTake(t)  BY <1>4 DEF SendTake
<1>5. CASE WriteAccepted(t)  BY <1>5 DEF WriteAccepted, SendReturn, AfterSend
<1>6. CASE WriteBroken(t)  BY <1>6 DEF WriteBroken, SendReturn, AfterSend
<1>7. CASE WriteRefused(t)  BY <1>7 DEF WriteRefused, SendReturn, AfterSend
<1>8. CASE WriteStray(t)  BY <1>8 DEF WriteStray, SendReturn, AfterSend
<1> QED  BY <1>1, <1>2, <1>3, <1>4, <1>5, <1>6, <1>7, <1>8 DEF MessageSend

\* A step of mark_Failed keeps the control locations in type.
LEMMA MarkFailedPc ==
  ASSUME TypeOK, NEW t \in {"send", "recv", "edt"}, MarkFailed(t)
  PROVE  PcTypeOK'
<1> USE DEF TypeOK, PcTypeOK, At, Goto, Threads, Labels, UserLabels, CreatLabels, SendThreadLabels,
            RecvThreadLabels, EdtLabels, ShutLabels, SendLabels, MarkLabels
<1>1. CASE MarkCheck(t)  BY <1>1 DEF MarkCheck, AfterMark
<1>2. CASE MarkSet(t)  BY <1>2 DEF MarkSet
<1>3. CASE MarkAdd(t)  BY <1>3 DEF MarkAdd
<1>4. CASE MarkClose(t)  BY <1>4 DEF MarkClose, AfterMark
<1> QED  BY <1>1, <1>2, <1>3, <1>4 DEF MarkFailed

\* Every step keeps the control locations in type.
LEMMA NextPc ==
  ASSUME TypeOK, [Next]_vars
  PROVE  PcTypeOK'
<1> USE DEF TypeOK, PcTypeOK, At, Goto, Threads, Labels, UserLabels, CreatLabels, SendThreadLabels,
            RecvThreadLabels, EdtLabels, ShutLabels, SendLabels, MarkLabels
<1>1. CASE CreatStep
  <2>1. CASE CreatSendDirectly  BY <2>1 DEF CreatSendDirectly
  <2>2. CASE MessageSend("creat")  BY <2>2, MessageSendPc
  <2>3. CASE CreateSendThread  BY <2>3 DEF CreateSendThread
  <2>4. CASE CreateRecvThread  BY <2>4 DEF CreateRecvThread
  <2>5. CASE SetThreadIds  BY <2>5 DEF SetThreadIds
  <2>6. CASE WaitForCommunicationThreads  BY <2>6 DEF WaitForCommunicationThreads
  <2> QED  BY <1>1, <2>1, <2>2, <2>3, <2>4, <2>5, <2>6 DEF CreatStep
<1>2. CASE SendThread
  <2>1. CASE SendThreadStart  BY <2>1 DEF SendThreadStart
  <2>2. CASE WaitForMessagesToSend  BY <2>2 DEF WaitForMessagesToSend
  <2>3. CASE SendThreadCheck  BY <2>3 DEF SendThreadCheck
  <2>4. CASE MessageSend("send")  BY <2>4, MessageSendPc
  <2>5. CASE SignalFlushComplete  BY <2>5 DEF SignalFlushComplete
  <2>6. CASE MarkFailed("send")  BY <2>6, MarkFailedPc
  <2>7. CASE SendThreadExit  BY <2>7 DEF SendThreadExit
  <2> QED  BY <1>2, <2>1, <2>2, <2>3, <2>4, <2>5, <2>6, <2>7 DEF SendThread
<1>3. CASE RecvThread
  <2>1. CASE RecvThreadStart  BY <2>1 DEF RecvThreadStart
  <2>2. CASE RecvThreadCheck  BY <2>2 DEF RecvThreadCheck
  <2>3. CASE RecvEnter  BY <2>3 DEF RecvEnter
  <2>4. CASE RecvEOF  BY <2>4 DEF RecvEOF
  <2>5. CASE RecvCancelled  BY <2>5 DEF RecvCancelled
  <2>6. CASE MarkFailed("recv")  BY <2>6, MarkFailedPc
  <2>7. CASE RecvThreadExit  BY <2>7 DEF RecvThreadExit
  <2> QED  BY <1>3, <2>1, <2>2, <2>3, <2>4, <2>5, <2>6, <2>7 DEF RecvThread
<1>4. CASE RecvData \/ RecvElsewhere
  BY <1>4 DEF RecvData, RecvElsewhere
<1>5. ASSUME NEW u \in Users,
             UserSend(u) \/ UserFlush(u) \/ WaitForFlushCompletion(u, "idle")
      PROVE  PcTypeOK'
  <2>1. CASE UserSend(u)  BY <2>1 DEF UserSend
  <2>2. CASE UserFlush(u)  BY <2>2 DEF UserFlush
  <2>3. CASE WaitForFlushCompletion(u, "idle")  BY <2>3 DEF WaitForFlushCompletion
  <2> QED  BY <1>5, <2>1, <2>2, <2>3
<1>6. CASE EdtDetects  BY <1>6 DEF EdtDetects
<1>7. CASE MarkFailed("edt")  BY <1>7, MarkFailedPc
<1>8. CASE ShutdownBegin \/ ShutStep
  <2>1. CASE ShutdownBegin  BY <2>1 DEF ShutdownBegin
  <2>2. CASE WaitForFlushCompletion("shut", "getids")  BY <2>2 DEF WaitForFlushCompletion
  <2>3. CASE ShutdownReadIds  BY <2>3 DEF ShutdownReadIds
  <2>4. CASE StopBegin  BY <2>4 DEF StopBegin
  <2>5. CASE MessageSend("shut")  BY <2>5, MessageSendPc
  <2>6. CASE StopShutdownWrite  BY <2>6 DEF StopShutdownWrite
  <2>7. CASE StopWakeSend  BY <2>7 DEF StopWakeSend
  <2>8. CASE StopDrain  BY <2>8 DEF StopDrain
  <2>9. CASE StopClose  BY <2>9 DEF StopClose
  <2>10. CASE JoinRecv  BY <2>10 DEF JoinRecv
  <2>11. CASE JoinSend  BY <2>11 DEF JoinSend
  <2> QED  BY <1>8, <2>1, <2>2, <2>3, <2>4, <2>5, <2>6, <2>7, <2>8, <2>9, <2>10, <2>11 DEF ShutStep
<1>9. CASE RemoteFails \/ RemoteClosesAfterEOF \/ DescriptorReused
  BY <1>9 DEF RemoteFails, RemoteClosesAfterEOF, DescriptorReused
<1>10. CASE UNCHANGED vars  BY <1>10 DEF vars
<1> QED  BY <1>1, <1>2, <1>3, <1>4, <1>5, <1>6, <1>7, <1>8, <1>9, <1>10 DEF Next

-----------------------------------------------------------------------------
(* Types of the monitors, flags and sockets. *)

\* A step of Message::send keeps the state of the peer and its socket in type.
LEMMA MessageSendState ==
  ASSUME TypeOK, NEW t \in {"creat", "send", "shut"}, MessageSend(t)
  PROVE  StateTypeOK'
<1> USE DEF TypeOK, StateTypeOK, Notified, At, startVars, sockVars, Threads, NoOne
<1>1. CASE ReadFd(t)  BY <1>1 DEF ReadFd
<1>2. CASE SendBlocked(t)  BY <1>2 DEF SendBlocked
<1>3. CASE SendNothing(t)  BY <1>3 DEF SendNothing
<1>4. CASE SendTake(t)  BY <1>4 DEF SendTake
<1>5. CASE WriteAccepted(t)  BY <1>5 DEF WriteAccepted, SendReturn
<1>6. CASE WriteBroken(t)  BY <1>6 DEF WriteBroken, SendReturn
<1>7. CASE WriteRefused(t)  BY <1>7 DEF WriteRefused, SendReturn
<1>8. CASE WriteStray(t)  BY <1>8 DEF WriteStray, SendReturn
<1> QED  BY <1>1, <1>2, <1>3, <1>4, <1>5, <1>6, <1>7, <1>8 DEF MessageSend

\* A step of mark_Failed keeps the state of the peer and its socket in type.
LEMMA MarkFailedState ==
  ASSUME TypeOK, NEW t \in {"send", "recv", "edt"}, MarkFailed(t)
  PROVE  StateTypeOK'
<1> USE DEF TypeOK, StateTypeOK, Notified, At, startVars, sockVars, Threads, NoOne
<1>1. CASE MarkCheck(t)  BY <1>1 DEF MarkCheck
<1>2. CASE MarkSet(t)
  <2>1. available' = FALSE /\ UNCHANGED <<waiting, startVars, sync, sockVars, shutdown>>
    BY <1>2 DEF MarkSet
  <2>2. available' \in BOOLEAN
    BY <2>1
  <2>3. StateTypeOK
    BY DEF TypeOK
  <2> QED  BY <2>1, <2>2, <2>3 DEF StateTypeOK, startVars, sockVars
<1>3. CASE MarkAdd(t)  BY <1>3 DEF MarkAdd, AddPacket
<1>4. CASE MarkClose(t)  BY <1>4 DEF MarkClose, CloseDataSocket
<1> QED  BY <1>1, <1>2, <1>3, <1>4 DEF MarkFailed

\* Every step keeps the state of the peer and its socket in type.
LEMMA NextState ==
  ASSUME TypeOK, [Next]_vars
  PROVE  StateTypeOK'
<1> USE DEF TypeOK, StateTypeOK, Notified, At, startVars, sockVars, Threads, NoOne
<1>1. CASE CreatStep
  <2>1. CASE CreatSendDirectly  BY <2>1 DEF CreatSendDirectly, AddPacket
  <2>2. CASE MessageSend("creat")  BY <2>2, MessageSendState
  <2>3. CASE CreateSendThread  BY <2>3 DEF CreateSendThread
  <2>4. CASE CreateRecvThread  BY <2>4 DEF CreateRecvThread
  <2>5. CASE SetThreadIds  BY <2>5 DEF SetThreadIds
  <2>6. CASE WaitForCommunicationThreads
    <3>1. CASE started.recv  BY <2>6, <3>1 DEF WaitForCommunicationThreads
    <3>2. CASE ~started.recv  BY <2>6, <3>2 DEF WaitForCommunicationThreads
    <3> QED  BY <3>1, <3>2
  <2> QED  BY <1>1, <2>1, <2>2, <2>3, <2>4, <2>5, <2>6 DEF CreatStep
<1>2. CASE SendThread
  <2>1. CASE SendThreadStart  BY <2>1 DEF SendThreadStart
  <2>2. CASE WaitForMessagesToSend  BY <2>2 DEF WaitForMessagesToSend
  <2>3. CASE SendThreadCheck  BY <2>3 DEF SendThreadCheck
  <2>4. CASE MessageSend("send")  BY <2>4, MessageSendState
  <2>5. CASE SignalFlushComplete  BY <2>5 DEF SignalFlushComplete
  <2>6. CASE MarkFailed("send")  BY <2>6, MarkFailedState
  <2>7. CASE SendThreadExit  BY <2>7 DEF SendThreadExit
  <2> QED  BY <1>2, <2>1, <2>2, <2>3, <2>4, <2>5, <2>6, <2>7 DEF SendThread
<1>3. CASE RecvThread
  <2>1. CASE RecvThreadStart
    <3>1. CASE started.send  BY <2>1, <3>1 DEF RecvThreadStart
    <3>2. CASE ~started.send  BY <2>1, <3>2 DEF RecvThreadStart
    <3> QED  BY <3>1, <3>2
  <2>2. CASE RecvThreadCheck  BY <2>2 DEF RecvThreadCheck
  <2>3. CASE RecvEnter  BY <2>3 DEF RecvEnter
  <2>4. CASE RecvEOF  BY <2>4 DEF RecvEOF
  <2>5. CASE RecvCancelled  BY <2>5 DEF RecvCancelled
  <2>6. CASE MarkFailed("recv")  BY <2>6, MarkFailedState
  <2>7. CASE RecvThreadExit  BY <2>7 DEF RecvThreadExit
  <2> QED  BY <1>3, <2>1, <2>2, <2>3, <2>4, <2>5, <2>6, <2>7 DEF RecvThread
<1>4. CASE RecvData \/ RecvElsewhere
  BY <1>4 DEF RecvData, RecvElsewhere
<1>5. ASSUME NEW u \in Users,
             UserSend(u) \/ UserFlush(u) \/ WaitForFlushCompletion(u, "idle")
      PROVE  StateTypeOK'
  <2>1. CASE UserSend(u)  BY <2>1 DEF UserSend, AddPacket
  <2>2. CASE UserFlush(u)  BY <2>2 DEF UserFlush
  <2>3. CASE WaitForFlushCompletion(u, "idle")  BY <2>3 DEF WaitForFlushCompletion
  <2> QED  BY <1>5, <2>1, <2>2, <2>3
<1>6. CASE EdtDetects  BY <1>6 DEF EdtDetects
<1>7. CASE MarkFailed("edt")  BY <1>7, MarkFailedState
<1>8. CASE ShutdownBegin \/ ShutStep
  <2>1. CASE ShutdownBegin  BY <2>1 DEF ShutdownBegin
  <2>2. CASE WaitForFlushCompletion("shut", "getids")  BY <2>2 DEF WaitForFlushCompletion
  <2>3. CASE ShutdownReadIds  BY <2>3 DEF ShutdownReadIds
  <2>4. CASE StopBegin  BY <2>4 DEF StopBegin
  <2>5. CASE MessageSend("shut")  BY <2>5, MessageSendState
  <2>6. CASE StopShutdownWrite  BY <2>6 DEF StopShutdownWrite
  <2>7. CASE StopWakeSend  BY <2>7 DEF StopWakeSend, AddPacket
  <2>8. CASE StopDrain  BY <2>8 DEF StopDrain
  <2>9. CASE StopClose  BY <2>9 DEF StopClose, CloseDataSocket
  <2>10. CASE JoinRecv  BY <2>10 DEF JoinRecv
  <2>11. CASE JoinSend  BY <2>11 DEF JoinSend
  <2> QED  BY <1>8, <2>1, <2>2, <2>3, <2>4, <2>5, <2>6, <2>7, <2>8, <2>9, <2>10, <2>11 DEF ShutStep
<1>9. CASE RemoteFails \/ RemoteClosesAfterEOF \/ DescriptorReused
  BY <1>9 DEF RemoteFails, RemoteClosesAfterEOF, DescriptorReused
<1>10. CASE UNCHANGED vars  BY <1>10 DEF vars
<1> QED  BY <1>1, <1>2, <1>3, <1>4, <1>5, <1>6, <1>7, <1>8, <1>9, <1>10 DEF Next

-----------------------------------------------------------------------------
(* Types of the message queue and the histories. *)

\* A step of Message::send keeps the queue, the batches and the wire in type.
LEMMA MessageSendMsg ==
  ASSUME TypeOK, NEW t \in {"creat", "send", "shut"}, MessageSend(t)
  PROVE  MsgTypeOK'
<1> USE PacketSeqs, PacketNames DEF TypeOK, MsgTypeOK, At, msgVars, histVars, Threads, NoOne
<1>1. CASE ReadFd(t)  BY <1>1 DEF ReadFd
<1>2. CASE SendBlocked(t)  BY <1>2 DEF SendBlocked
<1>3. CASE SendNothing(t)  BY <1>3 DEF SendNothing
<1>4. CASE SendTake(t)  BY <1>4 DEF SendTake
<1>5. CASE WriteAccepted(t)  BY <1>5 DEF WriteAccepted, SendReturn
<1>6. CASE WriteBroken(t)  BY <1>6 DEF WriteBroken, SendReturn
<1>7. CASE WriteRefused(t)  BY <1>7 DEF WriteRefused, SendReturn
<1>8. CASE WriteStray(t)  BY <1>8 DEF WriteStray, SendReturn
<1> QED  BY <1>1, <1>2, <1>3, <1>4, <1>5, <1>6, <1>7, <1>8 DEF MessageSend

\* A step of mark_Failed keeps the queue, the batches and the wire in type.
LEMMA MarkFailedMsg ==
  ASSUME TypeOK, NEW t \in {"send", "recv", "edt"}, MarkFailed(t)
  PROVE  MsgTypeOK'
<1> USE PacketSeqs, PacketNames DEF TypeOK, MsgTypeOK, At, msgVars, histVars, Threads, NoOne
<1>1. CASE MarkCheck(t)  BY <1>1 DEF MarkCheck
<1>2. CASE MarkSet(t)  BY <1>2 DEF MarkSet
<1>3. CASE MarkAdd(t)  BY <1>3 DEF MarkAdd, AddPacket
<1>4. CASE MarkClose(t)  BY <1>4 DEF MarkClose
<1> QED  BY <1>1, <1>2, <1>3, <1>4 DEF MarkFailed

\* Every step keeps the queue, the batches and the wire in type.
LEMMA NextMsg ==
  ASSUME TypeOK, [Next]_vars
  PROVE  MsgTypeOK'
<1> USE PacketSeqs, PacketNames DEF TypeOK, MsgTypeOK, At, msgVars, histVars, Threads, NoOne
<1>1. CASE CreatStep
  <2>1. CASE CreatSendDirectly  BY <2>1 DEF CreatSendDirectly, AddPacket
  <2>2. CASE MessageSend("creat")  BY <2>2, MessageSendMsg
  <2>3. CASE CreateSendThread  BY <2>3 DEF CreateSendThread
  <2>4. CASE CreateRecvThread  BY <2>4 DEF CreateRecvThread
  <2>5. CASE SetThreadIds  BY <2>5 DEF SetThreadIds
  <2>6. CASE WaitForCommunicationThreads  BY <2>6 DEF WaitForCommunicationThreads
  <2> QED  BY <1>1, <2>1, <2>2, <2>3, <2>4, <2>5, <2>6 DEF CreatStep
<1>2. CASE SendThread
  <2>1. CASE SendThreadStart  BY <2>1 DEF SendThreadStart
  <2>2. CASE WaitForMessagesToSend  BY <2>2 DEF WaitForMessagesToSend
  <2>3. CASE SendThreadCheck  BY <2>3 DEF SendThreadCheck
  <2>4. CASE MessageSend("send")  BY <2>4, MessageSendMsg
  <2>5. CASE SignalFlushComplete  BY <2>5 DEF SignalFlushComplete
  <2>6. CASE MarkFailed("send")  BY <2>6, MarkFailedMsg
  <2>7. CASE SendThreadExit  BY <2>7 DEF SendThreadExit
  <2> QED  BY <1>2, <2>1, <2>2, <2>3, <2>4, <2>5, <2>6, <2>7 DEF SendThread
<1>3. CASE RecvThread
  <2>1. CASE RecvThreadStart  BY <2>1 DEF RecvThreadStart
  <2>2. CASE RecvThreadCheck
    <3>1. CASE available
      <4>1. \A v \in BOOLEAN : [fd EXCEPT !["recv"] = v] \in [Threads -> BOOLEAN]
        OBVIOUS
      <4>2. fd' = [fd EXCEPT !["recv"] = sock \in {"open", "wrshut"}]
        BY <2>2, <3>1 DEF RecvThreadCheck
      <4>3. (sock \in {"open", "wrshut"}) \in BOOLEAN
        OBVIOUS
      <4>4. fd' \in [Threads -> BOOLEAN]
        BY <4>1, <4>2, <4>3, Zenon
      <4> QED  BY <2>2, <3>1, <4>4 DEF RecvThreadCheck
    <3>2. CASE ~available  BY <2>2, <3>2 DEF RecvThreadCheck
    <3> QED  BY <3>1, <3>2
  <2>3. CASE RecvEnter  BY <2>3 DEF RecvEnter
  <2>4. CASE RecvEOF  BY <2>4 DEF RecvEOF
  <2>5. CASE RecvCancelled  BY <2>5 DEF RecvCancelled
  <2>6. CASE MarkFailed("recv")  BY <2>6, MarkFailedMsg
  <2>7. CASE RecvThreadExit  BY <2>7 DEF RecvThreadExit
  <2> QED  BY <1>3, <2>1, <2>2, <2>3, <2>4, <2>5, <2>6, <2>7 DEF RecvThread
<1>4. CASE RecvData \/ RecvElsewhere
  BY <1>4 DEF RecvData, RecvElsewhere
<1>5. ASSUME NEW u \in Users,
             UserSend(u) \/ UserFlush(u) \/ WaitForFlushCompletion(u, "idle")
      PROVE  MsgTypeOK'
  <2>1. CASE UserSend(u)  BY <2>1 DEF UserSend, AddPacket
  <2>2. CASE UserFlush(u)  BY <2>2 DEF UserFlush
  <2>3. CASE WaitForFlushCompletion(u, "idle")  BY <2>3 DEF WaitForFlushCompletion
  <2> QED  BY <1>5, <2>1, <2>2, <2>3
<1>6. CASE EdtDetects  BY <1>6 DEF EdtDetects
<1>7. CASE MarkFailed("edt")  BY <1>7, MarkFailedMsg
<1>8. CASE ShutdownBegin \/ ShutStep
  <2>1. CASE ShutdownBegin  BY <2>1 DEF ShutdownBegin
  <2>2. CASE WaitForFlushCompletion("shut", "getids")  BY <2>2 DEF WaitForFlushCompletion
  <2>3. CASE ShutdownReadIds  BY <2>3 DEF ShutdownReadIds
  <2>4. CASE StopBegin  BY <2>4 DEF StopBegin
  <2>5. CASE MessageSend("shut")  BY <2>5, MessageSendMsg
  <2>6. CASE StopShutdownWrite  BY <2>6 DEF StopShutdownWrite
  <2>7. CASE StopWakeSend  BY <2>7 DEF StopWakeSend, AddPacket
  <2>8. CASE StopDrain  BY <2>8 DEF StopDrain
  <2>9. CASE StopClose  BY <2>9 DEF StopClose
  <2>10. CASE JoinRecv  BY <2>10 DEF JoinRecv
  <2>11. CASE JoinSend  BY <2>11 DEF JoinSend
  <2> QED  BY <1>8, <2>1, <2>2, <2>3, <2>4, <2>5, <2>6, <2>7, <2>8, <2>9, <2>10, <2>11 DEF ShutStep
<1>9. CASE RemoteFails \/ RemoteClosesAfterEOF \/ DescriptorReused
  BY <1>9 DEF RemoteFails, RemoteClosesAfterEOF, DescriptorReused
<1>10. CASE UNCHANGED vars  BY <1>10 DEF vars
<1> QED  BY <1>1, <1>2, <1>3, <1>4, <1>5, <1>6, <1>7, <1>8, <1>9, <1>10 DEF Next

-----------------------------------------------------------------------------
\* The initial state of a PeerNode has the types of TypeOK.
LEMMA InitType == Init => TypeOK
<1> SUFFICES ASSUME Init PROVE TypeOK
  OBVIOUS
<1> USE DEF Init, Threads, NoOne
<1>1. PcTypeOK
  BY DEF PcTypeOK, Labels, UserLabels, CreatLabels, SendThreadLabels,
     RecvThreadLabels, EdtLabels, ShutLabels, SendLabels, MarkLabels
<1>2. StateTypeOK  BY DEF StateTypeOK
<1>3. MsgTypeOK
  <2>1. fd \in [Threads -> BOOLEAN] /\ batch \in [Threads -> Seq(Packet)]
    BY PacketSeqs
  <2>2. nextPkt \in 1 .. MaxPackets + 1 /\ stopMark \in Nat
    OBVIOUS
  <2> QED  BY <2>1, <2>2, PacketSeqs DEF MsgTypeOK
<1> QED  BY <1>1, <1>2, <1>3 DEF TypeOK

\* Every variable of the model keeps its type, and every thread stays at the control
\* locations of its own main function.
THEOREM TypeCorrect == Spec => []TypeOK
<1>1. TypeOK /\ [Next]_vars => TypeOK'
  BY NextPc, NextState, NextMsg DEF TypeOK
<1> QED  BY <1>1, InitType, PTL DEF Spec

-----------------------------------------------------------------------------
(* The parts of the inductive invariant FifoInv. *)

\* The thread at "write" is the holder of _send_sync and the only one with a batch.
LEMMA MessageSendLock ==
  ASSUME TypeOK, LockInv, FdInv, LossInv, NEW t \in {"creat", "send", "shut"}, MessageSend(t)
  PROVE  LockInv'
<1> USE DEF TypeOK, PcTypeOK, MsgTypeOK, At, Goto, Threads, NoOne, LockInv, UserLabels,
            RecvThreadLabels,
            EdtLabels, SendLabels, MarkLabels, startVars, sockVars, msgVars, histVars
<1>1. CASE ReadFd(t)  BY <1>1 DEF ReadFd
<1>2. CASE SendBlocked(t)  BY <1>2 DEF SendBlocked
<1>3. CASE SendNothing(t)  BY <1>3 DEF SendNothing, AfterSend
<1>4. CASE SendTake(t)  BY <1>4 DEF SendTake
<1>5. CASE WriteAccepted(t)  BY <1>5 DEF WriteAccepted, SendReturn, AfterSend
<1>6. CASE WriteBroken(t)  BY <1>6 DEF WriteBroken, SendReturn, AfterSend
<1>7. CASE WriteRefused(t)  BY <1>7 DEF WriteRefused, SendReturn, AfterSend
<1>8. CASE WriteStray(t)  BY <1>8 DEF WriteStray, SendReturn, AfterSend
<1> QED  BY <1>1, <1>2, <1>3, <1>4, <1>5, <1>6, <1>7, <1>8 DEF MessageSend

\* A step of mark_Failed leaves the holder of _send_sync and its batch alone.
LEMMA MarkFailedLock ==
  ASSUME TypeOK, LockInv, FdInv, LossInv, NEW t \in {"send", "recv", "edt"}, MarkFailed(t)
  PROVE  LockInv'
<1> USE DEF TypeOK, PcTypeOK, MsgTypeOK, At, Goto, Threads, NoOne, LockInv, UserLabels,
            RecvThreadLabels,
            EdtLabels, SendLabels, MarkLabels, startVars, sockVars, msgVars, histVars
<1>1. CASE MarkCheck(t)  BY <1>1 DEF MarkCheck, AfterMark
<1>2. CASE MarkSet(t)  BY <1>2 DEF MarkSet
<1>3. CASE MarkAdd(t)  BY <1>3 DEF MarkAdd
<1>4. CASE MarkClose(t)  BY <1>4 DEF MarkClose, AfterMark
<1> QED  BY <1>1, <1>2, <1>3, <1>4 DEF MarkFailed

\* Every step keeps the holder of _send_sync the only thread with a batch.
LEMMA NextLock ==
  ASSUME TypeOK, LockInv, FdInv, LossInv, [Next]_vars
  PROVE  LockInv'
<1> USE DEF TypeOK, PcTypeOK, MsgTypeOK, At, Goto, Threads, NoOne, LockInv, UserLabels,
            RecvThreadLabels,
            EdtLabels, SendLabels, MarkLabels, startVars, sockVars, msgVars, histVars
<1>1. CASE CreatStep
  <2>1. CASE CreatSendDirectly  BY <2>1 DEF CreatSendDirectly
  <2>2. CASE MessageSend("creat")  BY <2>2, MessageSendLock
  <2>3. CASE CreateSendThread  BY <2>3 DEF CreateSendThread
  <2>4. CASE CreateRecvThread  BY <2>4 DEF CreateRecvThread
  <2>5. CASE SetThreadIds  BY <2>5 DEF SetThreadIds
  <2>6. CASE WaitForCommunicationThreads  BY <2>6 DEF WaitForCommunicationThreads
  <2> QED  BY <1>1, <2>1, <2>2, <2>3, <2>4, <2>5, <2>6 DEF CreatStep
<1>2. CASE SendThread
  <2>1. CASE SendThreadStart  BY <2>1 DEF SendThreadStart
  <2>2. CASE WaitForMessagesToSend  BY <2>2 DEF WaitForMessagesToSend
  <2>3. CASE SendThreadCheck  BY <2>3 DEF SendThreadCheck
  <2>4. CASE MessageSend("send")  BY <2>4, MessageSendLock
  <2>5. CASE SignalFlushComplete  BY <2>5 DEF SignalFlushComplete
  <2>6. CASE MarkFailed("send")  BY <2>6, MarkFailedLock
  <2>7. CASE SendThreadExit  BY <2>7 DEF SendThreadExit
  <2> QED  BY <1>2, <2>1, <2>2, <2>3, <2>4, <2>5, <2>6, <2>7 DEF SendThread
<1>3. CASE RecvThread
  <2>1. CASE RecvThreadStart  BY <2>1 DEF RecvThreadStart
  <2>2. CASE RecvThreadCheck  BY <2>2 DEF RecvThreadCheck
  <2>3. CASE RecvEnter  BY <2>3 DEF RecvEnter
  <2>4. CASE RecvEOF  BY <2>4 DEF RecvEOF
  <2>5. CASE RecvCancelled  BY <2>5 DEF RecvCancelled
  <2>6. CASE MarkFailed("recv")  BY <2>6, MarkFailedLock
  <2>7. CASE RecvThreadExit  BY <2>7 DEF RecvThreadExit
  <2> QED  BY <1>3, <2>1, <2>2, <2>3, <2>4, <2>5, <2>6, <2>7 DEF RecvThread
<1>4. CASE RecvData \/ RecvElsewhere
  BY <1>4 DEF RecvData, RecvElsewhere
<1>5. ASSUME NEW u \in Users,
             UserSend(u) \/ UserFlush(u) \/ WaitForFlushCompletion(u, "idle")
      PROVE  LockInv'
  <2>1. CASE UserSend(u)  BY <2>1 DEF UserSend
  <2>2. CASE UserFlush(u)  BY <2>2 DEF UserFlush
  <2>3. CASE WaitForFlushCompletion(u, "idle")  BY <2>3 DEF WaitForFlushCompletion
  <2> QED  BY <1>5, <2>1, <2>2, <2>3
<1>6. CASE EdtDetects  BY <1>6 DEF EdtDetects
<1>7. CASE MarkFailed("edt")  BY <1>7, MarkFailedLock
<1>8. CASE ShutdownBegin \/ ShutStep
  <2>1. CASE ShutdownBegin  BY <2>1 DEF ShutdownBegin
  <2>2. CASE WaitForFlushCompletion("shut", "getids")  BY <2>2 DEF WaitForFlushCompletion
  <2>3. CASE ShutdownReadIds  BY <2>3 DEF ShutdownReadIds
  <2>4. CASE StopBegin  BY <2>4 DEF StopBegin
  <2>5. CASE MessageSend("shut")  BY <2>5, MessageSendLock
  <2>6. CASE StopShutdownWrite  BY <2>6 DEF StopShutdownWrite
  <2>7. CASE StopWakeSend  BY <2>7 DEF StopWakeSend
  <2>8. CASE StopDrain  BY <2>8 DEF StopDrain
  <2>9. CASE StopClose  BY <2>9 DEF StopClose
  <2>10. CASE JoinRecv  BY <2>10 DEF JoinRecv
  <2>11. CASE JoinSend  BY <2>11 DEF JoinSend
  <2> QED  BY <1>8, <2>1, <2>2, <2>3, <2>4, <2>5, <2>6, <2>7, <2>8, <2>9, <2>10, <2>11 DEF ShutStep
<1>9. CASE RemoteFails \/ RemoteClosesAfterEOF \/ DescriptorReused
  BY <1>9 DEF RemoteFails, RemoteClosesAfterEOF, DescriptorReused
<1>10. CASE UNCHANGED vars  BY <1>10 DEF vars
<1> QED  BY <1>1, <1>2, <1>3, <1>4, <1>5, <1>6, <1>7, <1>8, <1>9, <1>10 DEF Next

\* An invalid descriptor is passed to Message::send only after the socket was closed.
LEMMA MessageSendFd ==
  ASSUME TypeOK, LockInv, FdInv, LossInv, NEW t \in {"creat", "send", "shut"}, MessageSend(t)
  PROVE  FdInv'
<1> USE DEF TypeOK, PcTypeOK, MsgTypeOK, At, Goto, Threads, NoOne, FdInv, StateTypeOK, UserLabels,
            startVars, sockVars, msgVars, histVars
<1>1. CASE ReadFd(t)  BY <1>1 DEF ReadFd
<1>2. CASE SendBlocked(t)  BY <1>2 DEF SendBlocked
<1>3. CASE SendNothing(t)  BY <1>3 DEF SendNothing, AfterSend
<1>4. CASE SendTake(t)  BY <1>4 DEF SendTake
<1>5. CASE WriteAccepted(t)  BY <1>5 DEF WriteAccepted, SendReturn, AfterSend
<1>6. CASE WriteBroken(t)  BY <1>6 DEF WriteBroken, SendReturn, AfterSend
<1>7. CASE WriteRefused(t)  BY <1>7 DEF WriteRefused, SendReturn, AfterSend
<1>8. CASE WriteStray(t)  BY <1>8 DEF WriteStray, SendReturn, AfterSend
<1> QED  BY <1>1, <1>2, <1>3, <1>4, <1>5, <1>6, <1>7, <1>8 DEF MessageSend

\* A step of mark_Failed: the socket is closed, no descriptor becomes valid.
LEMMA MarkFailedFd ==
  ASSUME TypeOK, LockInv, FdInv, LossInv, NEW t \in {"send", "recv", "edt"}, MarkFailed(t)
  PROVE  FdInv'
<1> USE DEF TypeOK, PcTypeOK, MsgTypeOK, At, Goto, Threads, NoOne, FdInv, StateTypeOK, UserLabels,
            startVars, sockVars, msgVars, histVars
<1>1. CASE MarkCheck(t)  BY <1>1 DEF MarkCheck, AfterMark
<1>2. CASE MarkSet(t)  BY <1>2 DEF MarkSet
<1>3. CASE MarkAdd(t)  BY <1>3 DEF MarkAdd
<1>4. CASE MarkClose(t)  BY <1>4 DEF MarkClose, AfterMark, CloseDataSocket
<1> QED  BY <1>1, <1>2, <1>3, <1>4 DEF MarkFailed

\* Every step keeps invalid descriptors and closed sockets together.
LEMMA NextFd ==
  ASSUME TypeOK, LockInv, FdInv, LossInv, [Next]_vars
  PROVE  FdInv'
<1> USE DEF TypeOK, PcTypeOK, MsgTypeOK, At, Goto, Threads, NoOne, FdInv, StateTypeOK, UserLabels,
            startVars, sockVars, msgVars, histVars
<1>1. CASE CreatStep
  <2>1. CASE CreatSendDirectly  BY <2>1 DEF CreatSendDirectly
  <2>2. CASE MessageSend("creat")  BY <2>2, MessageSendFd
  <2>3. CASE CreateSendThread  BY <2>3 DEF CreateSendThread
  <2>4. CASE CreateRecvThread  BY <2>4 DEF CreateRecvThread
  <2>5. CASE SetThreadIds  BY <2>5 DEF SetThreadIds
  <2>6. CASE WaitForCommunicationThreads  BY <2>6 DEF WaitForCommunicationThreads
  <2> QED  BY <1>1, <2>1, <2>2, <2>3, <2>4, <2>5, <2>6 DEF CreatStep
<1>2. CASE SendThread
  <2>1. CASE SendThreadStart  BY <2>1 DEF SendThreadStart
  <2>2. CASE WaitForMessagesToSend  BY <2>2 DEF WaitForMessagesToSend
  <2>3. CASE SendThreadCheck  BY <2>3 DEF SendThreadCheck
  <2>4. CASE MessageSend("send")  BY <2>4, MessageSendFd
  <2>5. CASE SignalFlushComplete  BY <2>5 DEF SignalFlushComplete
  <2>6. CASE MarkFailed("send")  BY <2>6, MarkFailedFd
  <2>7. CASE SendThreadExit  BY <2>7 DEF SendThreadExit
  <2> QED  BY <1>2, <2>1, <2>2, <2>3, <2>4, <2>5, <2>6, <2>7 DEF SendThread
<1>3. CASE RecvThread
  <2>1. CASE RecvThreadStart  BY <2>1 DEF RecvThreadStart
  <2>2. CASE RecvThreadCheck  BY <2>2 DEF RecvThreadCheck
  <2>3. CASE RecvEnter  BY <2>3 DEF RecvEnter
  <2>4. CASE RecvEOF  BY <2>4 DEF RecvEOF
  <2>5. CASE RecvCancelled  BY <2>5 DEF RecvCancelled
  <2>6. CASE MarkFailed("recv")  BY <2>6, MarkFailedFd
  <2>7. CASE RecvThreadExit  BY <2>7 DEF RecvThreadExit
  <2> QED  BY <1>3, <2>1, <2>2, <2>3, <2>4, <2>5, <2>6, <2>7 DEF RecvThread
<1>4. CASE RecvData \/ RecvElsewhere
  BY <1>4 DEF RecvData, RecvElsewhere
<1>5. ASSUME NEW u \in Users,
             UserSend(u) \/ UserFlush(u) \/ WaitForFlushCompletion(u, "idle")
      PROVE  FdInv'
  <2>1. CASE UserSend(u)  BY <2>1 DEF UserSend
  <2>2. CASE UserFlush(u)  BY <2>2 DEF UserFlush
  <2>3. CASE WaitForFlushCompletion(u, "idle")  BY <2>3 DEF WaitForFlushCompletion
  <2> QED  BY <1>5, <2>1, <2>2, <2>3
<1>6. CASE EdtDetects  BY <1>6 DEF EdtDetects
<1>7. CASE MarkFailed("edt")  BY <1>7, MarkFailedFd
<1>8. CASE ShutdownBegin \/ ShutStep
  <2>1. CASE ShutdownBegin  BY <2>1 DEF ShutdownBegin
  <2>2. CASE WaitForFlushCompletion("shut", "getids")  BY <2>2 DEF WaitForFlushCompletion
  <2>3. CASE ShutdownReadIds  BY <2>3 DEF ShutdownReadIds
  <2>4. CASE StopBegin  BY <2>4 DEF StopBegin
  <2>5. CASE MessageSend("shut")  BY <2>5, MessageSendFd
  <2>6. CASE StopShutdownWrite  BY <2>6 DEF StopShutdownWrite
  <2>7. CASE StopWakeSend  BY <2>7 DEF StopWakeSend
  <2>8. CASE StopDrain  BY <2>8 DEF StopDrain
  <2>9. CASE StopClose  BY <2>9 DEF StopClose, CloseDataSocket
  <2>10. CASE JoinRecv  BY <2>10 DEF JoinRecv
  <2>11. CASE JoinSend  BY <2>11 DEF JoinSend
  <2> QED  BY <1>8, <2>1, <2>2, <2>3, <2>4, <2>5, <2>6, <2>7, <2>8, <2>9, <2>10, <2>11 DEF ShutStep
<1>9. CASE RemoteFails \/ RemoteClosesAfterEOF \/ DescriptorReused
  BY <1>9 DEF RemoteFails, RemoteClosesAfterEOF, DescriptorReused
<1>10. CASE UNCHANGED vars  BY <1>10 DEF vars
<1> QED  BY <1>1, <1>2, <1>3, <1>4, <1>5, <1>6, <1>7, <1>8, <1>9, <1>10 DEF Next

\* After a loss the connection takes no more packets.
LEMMA MessageSendLoss ==
  ASSUME TypeOK, LockInv, FdInv, LossInv, NEW t \in {"creat", "send", "shut"}, MessageSend(t)
  PROVE  LossInv'
<1> USE DEF TypeOK, LossInv, FdInv, StateTypeOK, MsgTypeOK, At, Threads, NoOne,
            startVars, sockVars, msgVars, histVars
<1>1. CASE ReadFd(t)  BY <1>1 DEF ReadFd
<1>2. CASE SendBlocked(t)  BY <1>2 DEF SendBlocked
<1>3. CASE SendNothing(t)  BY <1>3 DEF SendNothing
<1>4. CASE SendTake(t)  BY <1>4 DEF SendTake
<1>5. CASE WriteAccepted(t)  BY <1>5 DEF WriteAccepted, SendReturn
<1>6. CASE WriteBroken(t)  BY <1>6 DEF WriteBroken, SendReturn
<1>7. CASE WriteRefused(t)  BY <1>7 DEF WriteRefused, SendReturn
<1>8. CASE WriteStray(t)  BY <1>8 DEF WriteStray, SendReturn
<1> QED  BY <1>1, <1>2, <1>3, <1>4, <1>5, <1>6, <1>7, <1>8 DEF MessageSend

\* A step of mark_Failed does not reopen a connection that has lost packets.
LEMMA MarkFailedLoss ==
  ASSUME TypeOK, LockInv, FdInv, LossInv, NEW t \in {"send", "recv", "edt"}, MarkFailed(t)
  PROVE  LossInv'
<1> USE DEF TypeOK, LossInv, FdInv, StateTypeOK, MsgTypeOK, At, Threads, NoOne,
            startVars, sockVars, msgVars, histVars
<1>1. CASE MarkCheck(t)  BY <1>1 DEF MarkCheck
<1>2. CASE MarkSet(t)  BY <1>2 DEF MarkSet
<1>3. CASE MarkAdd(t)  BY <1>3 DEF MarkAdd
<1>4. CASE MarkClose(t)  BY <1>4 DEF MarkClose, CloseDataSocket
<1> QED  BY <1>1, <1>2, <1>3, <1>4 DEF MarkFailed

\* Every step keeps a connection that has lost packets useless.
LEMMA NextLoss ==
  ASSUME TypeOK, LockInv, FdInv, LossInv, [Next]_vars
  PROVE  LossInv'
<1> USE DEF TypeOK, LossInv, FdInv, StateTypeOK, MsgTypeOK, At, Threads, NoOne,
            startVars, sockVars, msgVars, histVars
<1>1. CASE CreatStep
  <2>1. CASE CreatSendDirectly  BY <2>1 DEF CreatSendDirectly
  <2>2. CASE MessageSend("creat")  BY <2>2, MessageSendLoss
  <2>3. CASE CreateSendThread  BY <2>3 DEF CreateSendThread
  <2>4. CASE CreateRecvThread  BY <2>4 DEF CreateRecvThread
  <2>5. CASE SetThreadIds  BY <2>5 DEF SetThreadIds
  <2>6. CASE WaitForCommunicationThreads  BY <2>6 DEF WaitForCommunicationThreads
  <2> QED  BY <1>1, <2>1, <2>2, <2>3, <2>4, <2>5, <2>6 DEF CreatStep
<1>2. CASE SendThread
  <2>1. CASE SendThreadStart  BY <2>1 DEF SendThreadStart
  <2>2. CASE WaitForMessagesToSend  BY <2>2 DEF WaitForMessagesToSend
  <2>3. CASE SendThreadCheck  BY <2>3 DEF SendThreadCheck
  <2>4. CASE MessageSend("send")  BY <2>4, MessageSendLoss
  <2>5. CASE SignalFlushComplete  BY <2>5 DEF SignalFlushComplete
  <2>6. CASE MarkFailed("send")  BY <2>6, MarkFailedLoss
  <2>7. CASE SendThreadExit  BY <2>7 DEF SendThreadExit
  <2> QED  BY <1>2, <2>1, <2>2, <2>3, <2>4, <2>5, <2>6, <2>7 DEF SendThread
<1>3. CASE RecvThread
  <2>1. CASE RecvThreadStart  BY <2>1 DEF RecvThreadStart
  <2>2. CASE RecvThreadCheck  BY <2>2 DEF RecvThreadCheck
  <2>3. CASE RecvEnter  BY <2>3 DEF RecvEnter
  <2>4. CASE RecvEOF  BY <2>4 DEF RecvEOF
  <2>5. CASE RecvCancelled  BY <2>5 DEF RecvCancelled
  <2>6. CASE MarkFailed("recv")  BY <2>6, MarkFailedLoss
  <2>7. CASE RecvThreadExit  BY <2>7 DEF RecvThreadExit
  <2> QED  BY <1>3, <2>1, <2>2, <2>3, <2>4, <2>5, <2>6, <2>7 DEF RecvThread
<1>4. CASE RecvData \/ RecvElsewhere
  BY <1>4 DEF RecvData, RecvElsewhere
<1>5. ASSUME NEW u \in Users,
             UserSend(u) \/ UserFlush(u) \/ WaitForFlushCompletion(u, "idle")
      PROVE  LossInv'
  <2>1. CASE UserSend(u)  BY <2>1 DEF UserSend
  <2>2. CASE UserFlush(u)  BY <2>2 DEF UserFlush
  <2>3. CASE WaitForFlushCompletion(u, "idle")  BY <2>3 DEF WaitForFlushCompletion
  <2> QED  BY <1>5, <2>1, <2>2, <2>3
<1>6. CASE EdtDetects  BY <1>6 DEF EdtDetects
<1>7. CASE MarkFailed("edt")  BY <1>7, MarkFailedLoss
<1>8. CASE ShutdownBegin \/ ShutStep
  <2>1. CASE ShutdownBegin  BY <2>1 DEF ShutdownBegin
  <2>2. CASE WaitForFlushCompletion("shut", "getids")  BY <2>2 DEF WaitForFlushCompletion
  <2>3. CASE ShutdownReadIds  BY <2>3 DEF ShutdownReadIds
  <2>4. CASE StopBegin  BY <2>4 DEF StopBegin
  <2>5. CASE MessageSend("shut")  BY <2>5, MessageSendLoss
  <2>6. CASE StopShutdownWrite  BY <2>6 DEF StopShutdownWrite
  <2>7. CASE StopWakeSend  BY <2>7 DEF StopWakeSend
  <2>8. CASE StopDrain  BY <2>8 DEF StopDrain
  <2>9. CASE StopClose  BY <2>9 DEF StopClose, CloseDataSocket
  <2>10. CASE JoinRecv  BY <2>10 DEF JoinRecv
  <2>11. CASE JoinSend  BY <2>11 DEF JoinSend
  <2> QED  BY <1>8, <2>1, <2>2, <2>3, <2>4, <2>5, <2>6, <2>7, <2>8, <2>9, <2>10, <2>11 DEF ShutStep
<1>9. CASE RemoteFails \/ RemoteClosesAfterEOF \/ DescriptorReused
  BY <1>9 DEF RemoteFails, RemoteClosesAfterEOF, DescriptorReused
<1>10. CASE UNCHANGED vars  BY <1>10 DEF vars
<1> QED  BY <1>1, <1>2, <1>3, <1>4, <1>5, <1>6, <1>7, <1>8, <1>9, <1>10 DEF Next

-----------------------------------------------------------------------------
(* Prefixes and concatenations of packet sequences. *)

\* Concatenation of sequences of packets is a sequence of packets, of known length.
LEMMA PacketConcat ==
  \A s, t, u \in Seq(Packet) : (s \o t) \o u = s \o (t \o u)
  BY ConcatAssociative

\* Append at the end of a concatenation.
LEMMA AppendConcat ==
  \A x, q \in Seq(Packet), p \in Packet : Append(x \o q, p) = x \o Append(q, p)
  OBVIOUS

\* A sequence is its first k elements followed by the rest.
LEMMA SplitSeq ==
  ASSUME NEW b \in Seq(Packet), NEW k \in 0 .. Len(b)
  PROVE  b = SubSeq(b, 1, k) \o SubSeq(b, k + 1, Len(b))
<1>1. 1 \in 1 .. Len(b) + 1 /\ k \in 1 - 1 .. Len(b) /\ Len(b) \in k .. Len(b)
  OBVIOUS
<1>2. SubSeq(b, 1, k) \o SubSeq(b, k + 1, Len(b)) = SubSeq(b, 1, Len(b))
  BY <1>1, ConcatAdjacentSubSeq, Zenon
<1>3. SubSeq(b, 1, Len(b)) = b
  BY SubSeqFull, Zenon
<1> QED  BY <1>2, <1>3, Zenon

\* A sequence is a prefix of what is appended to it.
LEMMA PrefixOfConcat ==
  ASSUME NEW s \in Seq(Packet), NEW t \in Seq(Packet)
  PROVE  IsPrefix(s, s \o t)
<1>1. s \o t \in Seq(Packet) /\ Len(s \o t) = Len(s) + Len(t)
  BY ConcatProperties
<1>2. SubSeq(s \o t, 1, Len(s)) = SubSeq(s, 1, Len(s))
  <2>1. CASE Len(s) = 0  BY <2>1, <1>1, SubSeqEmpty
  <2>2. CASE Len(s) # 0  BY <2>2, SubSeqOfConcat1
  <2> QED  BY <2>1, <2>2
<1> QED  BY <1>1, <1>2 DEF IsPrefix

\* A prefix stays one when the longer sequence grows.
LEMMA PrefixOfAppend ==
  ASSUME NEW s \in Seq(Packet), NEW t \in Seq(Packet), NEW p \in Packet, IsPrefix(s, t)
  PROVE  IsPrefix(s, Append(t, p))
<1>1. Append(t, p) \in Seq(Packet) /\ Len(Append(t, p)) = Len(t) + 1
  BY AppendProperties
<1>2. SubSeq(Append(t, p), 1, Len(s)) = SubSeq(t, 1, Len(s))
  <2>1. Append(t, p) = t \o <<p>> /\ <<p>> \in Seq(Packet)
    BY AppendIsConcat
  <2>2. CASE Len(s) = 0  BY <2>2, SubSeqEmpty
  <2>3. CASE Len(s) # 0  BY <2>1, <2>3, SubSeqOfConcat1 DEF IsPrefix
  <2> QED  BY <2>2, <2>3
<1> QED  BY <1>1, <1>2 DEF IsPrefix

\* A part of the batch in flight, written behind the wire, is still a prefix.
LEMMA PrefixOfPart ==
  ASSUME NEW w \in Seq(Packet), NEW b \in Seq(Packet), NEW r \in Seq(Packet),
         NEW k \in 0 .. Len(b)
  PROVE  IsPrefix(w \o SubSeq(b, 1, k), (w \o b) \o r)
<1> DEFINE b1 == SubSeq(b, 1, k)  b2 == SubSeq(b, k + 1, Len(b))
<1>1. b1 \in Seq(Packet) /\ b2 \in Seq(Packet)
  OBVIOUS
<1>2. b = b1 \o b2
  BY SplitSeq, Zenon
<1> HIDE DEF b1, b2
<1>3. (w \o (b1 \o b2)) \o r = (w \o b1) \o (b2 \o r)
  <2>1. w \o (b1 \o b2) = (w \o b1) \o b2
    BY <1>1, PacketConcat, Zenon
  <2>2. w \o b1 \in Seq(Packet)
    BY <1>1, ConcatProperties
  <2>3. \A x \in Seq(Packet) : \A y \in Seq(Packet) : (x \o y) \o r = x \o (y \o r)
    BY PacketConcat
  <2>4. \A x \in Seq(Packet) : (x \o b2) \o r = x \o (b2 \o r)
    BY <1>1, <2>3, Zenon
  <2> QED  BY <2>1, <2>2, <2>4, Zenon
<1>4. w \o b1 \in Seq(Packet) /\ b2 \o r \in Seq(Packet)
  BY <1>1, ConcatProperties
<1>5. IsPrefix(w \o b1, (w \o b1) \o (b2 \o r))
  BY <1>4, PrefixOfConcat, Zenon
<1> QED  BY <1>2, <1>3, <1>5, Zenon DEF b1

-----------------------------------------------------------------------------
(* FifoOrder is preserved. *)

\* Queueing a packet.
LEMMA AddPacketFifo ==
  ASSUME FifoInv, NEW p \in Packet, AddPacket(p), UNCHANGED <<wire, batch, sendLock, lost>>
  PROVE  FifoOrder'
<1> USE DEF FifoInv, TypeOK, MsgTypeOK
<1>1. InFlight \in Seq(Packet) /\ InFlight' = InFlight
  BY PacketSeqs DEF InFlight, NoOne
<1>2. IsPrefix(wire, queued)'
  BY PrefixOfAppend DEF AddPacket, FifoOrder
<1>3. ~lost => Append(queued, p) = (wire \o InFlight) \o Append(packets, p)
  <2> SUFFICES ASSUME ~lost
               PROVE  Append(queued, p) = (wire \o InFlight) \o Append(packets, p)
    OBVIOUS
  <2>1. queued = (wire \o InFlight) \o packets
    BY DEF FifoOrder
  <2>2. wire \o InFlight \in Seq(Packet) /\ packets \in Seq(Packet)
    BY <1>1, ConcatProperties
  <2> QED  BY <2>1, <2>2, AppendConcat, Zenon
<1> QED  BY <1>1, <1>2, <1>3 DEF FifoOrder, AddPacket

\* A step of Message::send.
LEMMA MessageSendFifo ==
  ASSUME FifoInv, NEW t \in {"creat", "send", "shut"}, MessageSend(t)
  PROVE  FifoOrder' /\ (lost => wire' = wire)
<1> USE DEF FifoInv, TypeOK, MsgTypeOK
<1>0. t \in Threads /\ t # NoOne /\ batch[t] \in Seq(Packet)
  BY DEF Threads, NoOne
<1>1. CASE ReadFd(t) \/ SendBlocked(t) \/ SendNothing(t)
  BY <1>1 DEF ReadFd, SendBlocked, SendNothing, FifoOrder, InFlight, histVars
<1>2. CASE SendTake(t)
  <2>1. InFlight = <<>> /\ InFlight' = packets /\ packets' = <<>>
    BY <1>0, <1>2 DEF SendTake, InFlight
  <2>2. (wire \o <<>>) \o packets = (wire \o packets) \o <<>>
    BY ConcatEmptySeq, ConcatProperties
  <2>3. UNCHANGED <<wire, queued, lost>>
    BY <1>2 DEF SendTake, histVars
  <2> QED  BY <2>1, <2>2, <2>3 DEF FifoOrder
<1>3. ASSUME pc[t] = "write"
      PROVE  InFlight = batch[t]
  BY <1>0, <1>3 DEF LockInv, InFlight
<1>4. ASSUME SendReturn(t, TRUE) \/ SendReturn(t, FALSE)
      PROVE  InFlight' = <<>> /\ UNCHANGED <<queued, packets>>
  BY <1>4 DEF SendReturn, InFlight
<1>5. CASE WriteAccepted(t)
  <2>1. ~lost
    BY <1>5 DEF WriteAccepted, LossInv
  <2>2. queued = (wire \o batch[t]) \o packets
    BY <2>1, <1>3, <1>5 DEF WriteAccepted, At, FifoOrder
  <2>3. wire \o batch[t] \in Seq(Packet)
    BY <1>0, ConcatProperties
  <2>4. IsPrefix(wire \o batch[t], queued)
    BY <2>2, <2>3, PrefixOfConcat
  <2>5. (wire \o batch[t]) \o <<>> = wire \o batch[t]
    BY <2>3, ConcatEmptySeq
  <2>6. wire' = wire \o batch[t] /\ InFlight' = <<>> /\ UNCHANGED <<queued, packets>>
    BY <1>4, <1>5 DEF WriteAccepted
  <2> QED  BY <2>1, <2>2, <2>4, <2>5, <2>6 DEF FifoOrder
<1>6. CASE WriteBroken(t)
  <2>1. PICK k \in 0 .. Len(batch[t]) - 1 :
          (remote = "reset" => k = 0) /\ wire' = wire \o SubSeq(batch[t], 1, k)
    BY <1>6 DEF WriteBroken
  <2>2. lost' = TRUE /\ UNCHANGED <<queued, packets>>
    BY <1>4, <1>6 DEF WriteBroken
  <2>3. CASE lost
    <3>1. SubSeq(batch[t], 1, k) = <<>>
      BY <2>1, <2>3, <1>0, <1>6, SubSeqEmpty DEF WriteBroken, LossInv
    <3>2. wire' = wire
      BY <2>1, <3>1, ConcatEmptySeq
    <3> QED  BY <2>2, <3>2 DEF FifoOrder
  <2>4. CASE ~lost
    <3>1. queued = (wire \o batch[t]) \o packets
      BY <2>4, <1>3, <1>6 DEF WriteBroken, At, FifoOrder
    <3>2. k \in 0 .. Len(batch[t])
      BY <1>0
    <3>3. IsPrefix(wire', queued)
      BY <2>1, <3>1, <3>2, <1>0, PrefixOfPart
    <3> QED  BY <2>2, <2>4, <3>3 DEF FifoOrder
  <2> QED  BY <2>3, <2>4
<1>7. CASE WriteRefused(t) \/ WriteStray(t)
  <2>1. lost' = TRUE /\ UNCHANGED <<wire, queued>>
    BY <1>4, <1>7 DEF WriteRefused, WriteStray
  <2> QED  BY <2>1 DEF FifoOrder
<1> QED  BY <1>1, <1>2, <1>5, <1>6, <1>7 DEF MessageSend

\* Every step either is a step of Message::send, queues one packet, or leaves the
\* queue, the batches, the wire and the histories alone.
LEMMA StepKinds ==
  ASSUME TypeOK, [Next]_vars
  PROVE  \/ \E t \in {"creat", "send", "shut"} : MessageSend(t)
         \/ \E p \in Packet : AddPacket(p) /\ UNCHANGED <<wire, batch, sendLock, lost>>
         \/ UNCHANGED <<packets, queued, wire, batch, sendLock, lost>>
<1> USE DEF msgVars, histVars
<1>1. CASE CreatStep
  BY <1>1, PacketNames DEF CreatStep, CreatSendDirectly, CreateSendThread, CreateRecvThread,
     SetThreadIds, WaitForCommunicationThreads
<1>2. ASSUME NEW t \in Threads, MarkFailed(t)
      PROVE  \/ \E p \in Packet : AddPacket(p) /\ UNCHANGED <<wire, batch, sendLock, lost>>
             \/ UNCHANGED <<packets, queued, wire, batch, sendLock, lost>>
  BY <1>2, PacketNames DEF MarkFailed, MarkCheck, MarkSet, MarkAdd, MarkClose
<1>3. CASE SendThread
  BY <1>2, <1>3 DEF SendThread, SendThreadStart, WaitForMessagesToSend, SendThreadCheck,
     SignalFlushComplete, SendThreadExit, Threads
<1>4. CASE RecvThread \/ RecvData \/ RecvElsewhere
  BY <1>2, <1>4 DEF RecvThread, RecvThreadStart, RecvThreadCheck, RecvEnter, RecvEOF,
     RecvCancelled, RecvThreadExit, RecvData, RecvElsewhere, Threads
<1>5. ASSUME NEW u \in Users,
             UserSend(u) \/ UserFlush(u) \/ WaitForFlushCompletion(u, "idle")
      PROVE  \/ \E p \in Packet : AddPacket(p) /\ UNCHANGED <<wire, batch, sendLock, lost>>
             \/ UNCHANGED <<packets, queued, wire, batch, sendLock, lost>>
  BY <1>5, PacketNames DEF UserSend, UserFlush, WaitForFlushCompletion, TypeOK, MsgTypeOK
<1>6. CASE EdtDetects \/ MarkFailed("edt")
  BY <1>2, <1>6 DEF EdtDetects, Threads
<1>7. CASE ShutdownBegin \/ ShutStep
  BY <1>7, PacketNames DEF ShutdownBegin, ShutStep, WaitForFlushCompletion, ShutdownReadIds,
     StopBegin, StopShutdownWrite, StopWakeSend, StopDrain, StopClose, JoinRecv, JoinSend
<1>8. CASE RemoteFails \/ RemoteClosesAfterEOF \/ DescriptorReused
  BY <1>8 DEF RemoteFails, RemoteClosesAfterEOF, DescriptorReused
<1>9. CASE UNCHANGED vars  BY <1>9 DEF vars
<1> QED  BY <1>1, <1>3, <1>4, <1>5, <1>6, <1>7, <1>8, <1>9 DEF Next

\* Every step of a PeerNode preserves the order of packets.
LEMMA NextFifo ==
  ASSUME FifoInv, [Next]_vars
  PROVE  FifoOrder' /\ (lost => wire' = wire)
<1>1. CASE \E t \in {"creat", "send", "shut"} : MessageSend(t)
  BY <1>1, MessageSendFifo
<1>2. CASE \E p \in Packet : AddPacket(p) /\ UNCHANGED <<wire, batch, sendLock, lost>>
  BY <1>2, AddPacketFifo
<1>3. CASE UNCHANGED <<packets, queued, wire, batch, sendLock, lost>>
  BY <1>3 DEF FifoInv, FifoOrder, InFlight
<1> QED  BY <1>1, <1>2, <1>3, StepKinds DEF FifoInv

\* The initial state satisfies the inductive invariant.
LEMMA InitFifo == Init => FifoInv
<1> SUFFICES ASSUME Init PROVE FifoInv
  OBVIOUS
<1>1. LockInv /\ FdInv /\ LossInv
  BY DEF Init, LockInv, FdInv, LossInv, NoOne, Threads
<1>2. <<>> \in Seq(Packet) /\ <<>> \o <<>> = <<>> /\ IsPrefix(<<>>, <<>>)
  <2>1. <<>> \in Seq(Packet)  BY PacketSeqs
  <2>2. <<>> \o <<>> = <<>>  BY <2>1, ConcatEmptySeq, Zenon
  <2> QED  BY <2>1, <2>2, PrefixOfConcat, Zenon
<1>3. FifoOrder
  BY <1>2 DEF Init, FifoOrder, InFlight
<1> QED  BY <1>1, <1>3, InitType DEF FifoInv

\* FifoInv is an invariant of the specification.
LEMMA FifoInductive == Spec => []FifoInv
<1>1. FifoInv /\ [Next]_vars => FifoInv'
  BY NextPc, NextState, NextMsg, NextLock, NextFd, NextLoss, NextFifo DEF FifoInv, TypeOK
<1> QED  BY <1>1, InitFifo, PTL DEF Spec

\* Packets leave on the connection in the order in which they were queued, none twice
\* and none skipped, whichever threads are inside Message::send.
THEOREM FifoCorrect == Spec => []FifoOrder
BY FifoInductive, PTL DEF FifoInv

\* After a failed write nothing more is written.
THEOREM NothingAfterLoss == Spec => NoWriteAfterLoss
<1>1. FifoInv /\ [Next]_vars => [lost => wire' = wire]_vars
  BY NextFifo
<1> QED  BY <1>1, FifoInductive, PTL DEF Spec, NoWriteAfterLoss

-----------------------------------------------------------------------------
(* PeerNode implements FifoLink. *)

\* A prefix of queued that is at least as long as wire is a legal next wire.
LEMMA PrefixExtends ==
  ASSUME NEW w \in Seq(Packet), NEW v \in Seq(Packet), NEW q \in Seq(Packet),
         IsPrefix(v, q), Len(w) <= Len(v)
  PROVE  \E n \in Len(w) .. Len(q) : v = SubSeq(q, 1, n)
<1>1. v = SubSeq(v, 1, Len(v))
  BY SubSeqFull, Zenon
<1>2. SubSeq(v, 1, Len(v)) = SubSeq(q, 1, Len(v)) /\ Len(v) \in Len(w) .. Len(q)
  BY DEF IsPrefix
<1> QED  BY <1>1, <1>2, Zenon

\* A step of Message::send is a step of FifoLink or leaves its variables unchanged.
LEMMA MessageSendSimulates ==
  ASSUME FifoInv, FifoOrder', TypeOK', NEW t \in {"creat", "send", "shut"}, MessageSend(t)
  PROVE  [Fifo!Next]_(Fifo!vars)
<1>0. /\ wire \in Seq(Packet) /\ wire' \in Seq(Packet) /\ queued \in Seq(Packet)
      /\ batch[t] \in Seq(Packet) /\ lost \in BOOLEAN
  BY DEF FifoInv, TypeOK, MsgTypeOK, Threads
<1>1. CASE UNCHANGED <<queued, wire, lost>>
  BY <1>1 DEF Fifo!vars
<1>2. ASSUME UNCHANGED queued, Len(wire) <= Len(wire'), ~lost
      PROVE  Fifo!Extend
  BY <1>0, <1>2, PrefixExtends DEF FifoOrder, Fifo!Extend
<1>3. CASE WriteAccepted(t)
  <2>1. ~lost /\ UNCHANGED <<lost, queued>> /\ wire' = wire \o batch[t]
    BY <1>3 DEF WriteAccepted, SendReturn, FifoInv, LossInv
  <2>2. Len(wire) <= Len(wire')
    BY <2>1, <1>0, ConcatProperties
  <2> QED  BY <2>1, <2>2, <1>2 DEF Fifo!Next, Fifo!Transmit
<1>4. CASE WriteBroken(t) \/ WriteRefused(t) \/ WriteStray(t)
  <2>1. lost' = TRUE /\ UNCHANGED queued
    BY <1>4 DEF WriteBroken, WriteRefused, WriteStray, SendReturn
  <2>2. CASE lost
    BY <1>0, <1>1, <2>1, <2>2, MessageSendFifo
  <2>3. Len(wire) <= Len(wire')
    <3>1. CASE WriteBroken(t)
      <4>1. PICK k \in 0 .. Len(batch[t]) - 1 : wire' = wire \o SubSeq(batch[t], 1, k)
        BY <3>1 DEF WriteBroken
      <4>2. SubSeq(batch[t], 1, k) \in Seq(Packet)
        BY <1>0
      <4> QED  BY <4>1, <4>2, <1>0, ConcatProperties
    <3>2. CASE WriteRefused(t) \/ WriteStray(t)
      <4>1. wire' = wire  BY <3>2 DEF WriteRefused, WriteStray
      <4>2. Len(wire) \in Nat  BY <1>0
      <4> QED  BY <4>1, <4>2
    <3> QED  BY <1>4, <3>1, <3>2
  <2>4. CASE ~lost
    BY <1>2, <2>1, <2>3, <2>4 DEF Fifo!Next, Fifo!Break
  <2> QED  BY <1>0, <2>2, <2>4
<1>5. CASE ReadFd(t) \/ SendBlocked(t) \/ SendNothing(t) \/ SendTake(t)
  BY <1>1, <1>5 DEF ReadFd, SendBlocked, SendNothing, SendTake, histVars
<1> QED  BY <1>3, <1>4, <1>5 DEF MessageSend

\* A PeerNode is a FIFO link: the initial states of Spec are initial states of FifoLink
\* and every step of Spec is a step of FifoLink or leaves its variables unchanged.
THEOREM PeerNodeImplementsFifoLink == Spec => ImplementsFifoLink
<1>1. Init => Fifo!Init
  BY DEF Init, Fifo!Init
<1>2. FifoInv /\ FifoInv' /\ [Next]_vars => [Fifo!Next]_(Fifo!vars)
  <2> SUFFICES ASSUME FifoInv, FifoInv', [Next]_vars
               PROVE  [Fifo!Next]_(Fifo!vars)
    OBVIOUS
  <2>1. CASE \E t \in {"creat", "send", "shut"} : MessageSend(t)
    BY <2>1, MessageSendSimulates DEF FifoInv
  <2>2. CASE \E p \in Packet : AddPacket(p) /\ UNCHANGED <<wire, batch, sendLock, lost>>
    BY <2>2 DEF AddPacket, Fifo!Next, Fifo!Enqueue
  <2>3. CASE UNCHANGED <<packets, queued, wire, batch, sendLock, lost>>
    BY <2>3 DEF Fifo!vars
  <2> QED  BY <2>1, <2>2, <2>3, StepKinds DEF FifoInv
<1> QED  BY <1>1, <1>2, FifoInductive, PTL DEF Spec, ImplementsFifoLink, Fifo!Spec


-----------------------------------------------------------------------------
(* The arguments of the communication threads, and what shutdown leaves behind. *)

\* Who has started: a thread that reported is past its start, the receive thread reports
\* after the send thread and is not there before it is created, and the arguments are freed
\* after it reported.
StartInv ==
  /\ started.send => pc["send"] \notin {"idle", "start"}
  /\ started.recv => started.send /\ pc["recv"] \notin {"idle", "start", "waitsend"}
  /\ ~argsLive => started.recv
  /\ pc["creat"] \in SendLabels \cup {"init", "createsend", "createrecv"} => pc["recv"] = "idle"

\* Where the shutdown is when it has shut the socket for writing, or will not any more.
AfterStop == {"wakesend", "drain", "close", "joinrecv", "joinsend", "done", "gone"}

\* While the remote process runs and nobody has declared it failed, the socket is open until
\* the shutdown shuts it: no write was lost and no thread has found the link broken.
AliveInv ==
  /\ pc["recv"] = "enter" /\ ~fd["recv"] => sock \in {"closed", "reused"}
  /\ remote = "up" /\ pc["edt"] = "idle" /\ pc["shut"] \notin AfterStop =>
       /\ sock = "open" /\ ~lost
       /\ pc["send"] \notin MarkLabels /\ pc["recv"] \notin MarkLabels \cup {"elsewhere"}

\* What was queued before the shutdown is in the batch that it writes, and then written.
StopInv ==
  /\ stopMark <= Len(queued)
  /\ pc["shut"] = "write" /\ ~lost => stopMark <= Len(wire) + Len(batch["shut"])
  /\ /\ pc["shut"] \in {"shutwr", "wakesend", "drain", "close", "joinrecv"}
     /\ remote = "up" /\ pc["edt"] = "idle"
     => stopMark <= Len(wire)


-----------------------------------------------------------------------------
\* A step of Message::send starts nobody.
LEMMA MessageSendStart ==
  ASSUME TypeOK, StartInv, NEW t \in {"creat", "send", "shut"}, MessageSend(t)
  PROVE  StartInv'
<1> USE DEF TypeOK, PcTypeOK, StateTypeOK, MsgTypeOK, At, Goto, Threads, NoOne, UserLabels,
            RecvThreadLabels, EdtLabels, SendLabels, MarkLabels, startVars, sockVars, msgVars, histVars, StartInv
<1>1. CASE ReadFd(t)  BY <1>1 DEF ReadFd
<1>2. CASE SendBlocked(t)  BY <1>2 DEF SendBlocked
<1>3. CASE SendNothing(t)  BY <1>3 DEF SendNothing, AfterSend
<1>4. CASE SendTake(t)  BY <1>4 DEF SendTake
<1>5. CASE WriteAccepted(t)  BY <1>5 DEF WriteAccepted, SendReturn, AfterSend
<1>6. CASE WriteBroken(t)  BY <1>6 DEF WriteBroken, SendReturn, AfterSend
<1>7. CASE WriteRefused(t)  BY <1>7 DEF WriteRefused, SendReturn, AfterSend
<1>8. CASE WriteStray(t)  BY <1>8 DEF WriteStray, SendReturn, AfterSend
<1> QED  BY <1>1, <1>2, <1>3, <1>4, <1>5, <1>6, <1>7, <1>8 DEF MessageSend

\* A step of mark_Failed starts nobody.
LEMMA MarkFailedStart ==
  ASSUME TypeOK, StartInv, NEW t \in {"send", "recv", "edt"}, MarkFailed(t)
  PROVE  StartInv'
<1> USE DEF TypeOK, PcTypeOK, StateTypeOK, MsgTypeOK, At, Goto, Threads, NoOne, UserLabels,
            RecvThreadLabels, EdtLabels, SendLabels, MarkLabels, startVars, sockVars, msgVars, histVars, StartInv
<1>1. CASE MarkCheck(t)  BY <1>1 DEF MarkCheck, AfterMark
<1>2. CASE MarkSet(t)  BY <1>2 DEF MarkSet
<1>3. CASE MarkAdd(t)  BY <1>3 DEF MarkAdd
<1>4. CASE MarkClose(t)  BY <1>4 DEF MarkClose, AfterMark
<1> QED  BY <1>1, <1>2, <1>3, <1>4 DEF MarkFailed

\* Every step keeps the order in which the threads start.
LEMMA NextStart ==
  ASSUME TypeOK, LockInv, StartInv, [Next]_vars
  PROVE  StartInv'
<1> USE DEF TypeOK, PcTypeOK, StateTypeOK, MsgTypeOK, At, Goto, Threads, NoOne, UserLabels,
            RecvThreadLabels, EdtLabels, SendLabels, MarkLabels, startVars, sockVars, msgVars, histVars, StartInv
<1>1. CASE CreatStep
  <2>1. CASE CreatSendDirectly  BY <2>1 DEF CreatSendDirectly
  <2>2. CASE MessageSend("creat")  BY <2>2, MessageSendStart
  <2>3. CASE CreateSendThread  BY <2>3 DEF CreateSendThread, LockInv
  <2>4. CASE CreateRecvThread  BY <2>4 DEF CreateRecvThread
  <2>5. CASE SetThreadIds  BY <2>5 DEF SetThreadIds
  <2>6. CASE WaitForCommunicationThreads  BY <2>6 DEF WaitForCommunicationThreads
  <2> QED  BY <1>1, <2>1, <2>2, <2>3, <2>4, <2>5, <2>6 DEF CreatStep
<1>2. CASE SendThread
  <2>1. CASE SendThreadStart  BY <2>1 DEF SendThreadStart
  <2>2. CASE WaitForMessagesToSend  BY <2>2 DEF WaitForMessagesToSend
  <2>3. CASE SendThreadCheck  BY <2>3 DEF SendThreadCheck
  <2>4. CASE MessageSend("send")  BY <2>4, MessageSendStart
  <2>5. CASE SignalFlushComplete  BY <2>5 DEF SignalFlushComplete
  <2>6. CASE MarkFailed("send")  BY <2>6, MarkFailedStart
  <2>7. CASE SendThreadExit  BY <2>7 DEF SendThreadExit
  <2> QED  BY <1>2, <2>1, <2>2, <2>3, <2>4, <2>5, <2>6, <2>7 DEF SendThread
<1>3. CASE RecvThread
  <2>1. CASE RecvThreadStart  BY <2>1 DEF RecvThreadStart
  <2>2. CASE RecvThreadCheck  BY <2>2 DEF RecvThreadCheck
  <2>3. CASE RecvEnter  BY <2>3 DEF RecvEnter
  <2>4. CASE RecvEOF  BY <2>4 DEF RecvEOF
  <2>5. CASE RecvCancelled  BY <2>5 DEF RecvCancelled
  <2>6. CASE MarkFailed("recv")  BY <2>6, MarkFailedStart
  <2>7. CASE RecvThreadExit  BY <2>7 DEF RecvThreadExit
  <2> QED  BY <1>3, <2>1, <2>2, <2>3, <2>4, <2>5, <2>6, <2>7 DEF RecvThread
<1>4. CASE RecvData \/ RecvElsewhere
  BY <1>4 DEF RecvData, RecvElsewhere
<1>5. ASSUME NEW u \in Users,
             UserSend(u) \/ UserFlush(u) \/ WaitForFlushCompletion(u, "idle")
      PROVE  StartInv'
  <2>1. CASE UserSend(u)  BY <2>1 DEF UserSend
  <2>2. CASE UserFlush(u)  BY <2>2 DEF UserFlush
  <2>3. CASE WaitForFlushCompletion(u, "idle")  BY <2>3 DEF WaitForFlushCompletion
  <2> QED  BY <1>5, <2>1, <2>2, <2>3
<1>6. CASE EdtDetects  BY <1>6 DEF EdtDetects
<1>7. CASE MarkFailed("edt")  BY <1>7, MarkFailedStart
<1>8. CASE ShutdownBegin \/ ShutStep
  <2>1. CASE ShutdownBegin  BY <2>1 DEF ShutdownBegin
  <2>2. CASE WaitForFlushCompletion("shut", "getids")  BY <2>2 DEF WaitForFlushCompletion
  <2>3. CASE ShutdownReadIds  BY <2>3 DEF ShutdownReadIds
  <2>4. CASE StopBegin  BY <2>4 DEF StopBegin
  <2>5. CASE MessageSend("shut")  BY <2>5, MessageSendStart
  <2>6. CASE StopShutdownWrite  BY <2>6 DEF StopShutdownWrite
  <2>7. CASE StopWakeSend  BY <2>7 DEF StopWakeSend
  <2>8. CASE StopDrain  BY <2>8 DEF StopDrain
  <2>9. CASE StopClose  BY <2>9 DEF StopClose
  <2>10. CASE JoinRecv  BY <2>10 DEF JoinRecv
  <2>11. CASE JoinSend  BY <2>11 DEF JoinSend
  <2> QED  BY <1>8, <2>1, <2>2, <2>3, <2>4, <2>5, <2>6, <2>7, <2>8, <2>9, <2>10, <2>11 DEF ShutStep
<1>9. CASE RemoteFails \/ RemoteClosesAfterEOF \/ DescriptorReused
  BY <1>9 DEF RemoteFails, RemoteClosesAfterEOF, DescriptorReused
<1>10. CASE UNCHANGED vars  BY <1>10 DEF vars
<1> QED  BY <1>1, <1>2, <1>3, <1>4, <1>5, <1>6, <1>7, <1>8, <1>9, <1>10 DEF Next

\* A step of Message::send fails only on a socket that is closed or broken.
LEMMA MessageSendAlive ==
  ASSUME TypeOK, LockInv, FdInv, LossInv, AliveInv, NEW t \in {"creat", "send", "shut"}, MessageSend(t)
  PROVE  AliveInv'
<1> USE DEF TypeOK, PcTypeOK, StateTypeOK, MsgTypeOK, At, Goto, Threads, NoOne, UserLabels,
            RecvThreadLabels, EdtLabels, SendLabels, MarkLabels, startVars, sockVars, msgVars, histVars, FdInv, LossInv, AliveInv, AfterStop, ShutLabels
<1>1. CASE ReadFd(t)  BY <1>1 DEF ReadFd
<1>2. CASE SendBlocked(t)  BY <1>2 DEF SendBlocked
<1>3. CASE SendNothing(t)  BY <1>3 DEF SendNothing, AfterSend
<1>4. CASE SendTake(t)  BY <1>4 DEF SendTake
<1>5. CASE WriteAccepted(t)  BY <1>5 DEF WriteAccepted, SendReturn, AfterSend
<1>6. CASE WriteBroken(t)  BY <1>6 DEF WriteBroken, SendReturn, AfterSend
<1>7. CASE WriteRefused(t)  BY <1>7 DEF WriteRefused, SendReturn, AfterSend
<1>8. CASE WriteStray(t)  BY <1>8 DEF WriteStray, SendReturn, AfterSend
<1> QED  BY <1>1, <1>2, <1>3, <1>4, <1>5, <1>6, <1>7, <1>8 DEF MessageSend

\* A step of mark_Failed is taken by a thread that has found the link broken.
LEMMA MarkFailedAlive ==
  ASSUME TypeOK, LockInv, FdInv, LossInv, AliveInv, NEW t \in {"send", "recv", "edt"}, MarkFailed(t)
  PROVE  AliveInv'
<1> USE DEF TypeOK, PcTypeOK, StateTypeOK, MsgTypeOK, At, Goto, Threads, NoOne, UserLabels,
            RecvThreadLabels, EdtLabels, SendLabels, MarkLabels, startVars, sockVars, msgVars, histVars, FdInv, LossInv, AliveInv, AfterStop, ShutLabels
<1>1. CASE MarkCheck(t)  BY <1>1 DEF MarkCheck, AfterMark
<1>2. CASE MarkSet(t)  BY <1>2 DEF MarkSet
<1>3. CASE MarkAdd(t)  BY <1>3 DEF MarkAdd
<1>4. CASE MarkClose(t)  BY <1>4 DEF MarkClose, AfterMark, CloseDataSocket
<1> QED  BY <1>1, <1>2, <1>3, <1>4 DEF MarkFailed

\* Every step keeps an open socket open until the shutdown.
LEMMA NextAlive ==
  ASSUME TypeOK, LockInv, FdInv, LossInv, AliveInv, [Next]_vars
  PROVE  AliveInv'
<1> USE DEF TypeOK, PcTypeOK, StateTypeOK, MsgTypeOK, At, Goto, Threads, NoOne, UserLabels,
            RecvThreadLabels, EdtLabels, SendLabels, MarkLabels, startVars, sockVars, msgVars, histVars, FdInv, LossInv, AliveInv, AfterStop, ShutLabels
<1>1. CASE CreatStep
  <2>1. CASE CreatSendDirectly  BY <2>1 DEF CreatSendDirectly
  <2>2. CASE MessageSend("creat")  BY <2>2, MessageSendAlive
  <2>3. CASE CreateSendThread  BY <2>3 DEF CreateSendThread
  <2>4. CASE CreateRecvThread  BY <2>4 DEF CreateRecvThread
  <2>5. CASE SetThreadIds  BY <2>5 DEF SetThreadIds
  <2>6. CASE WaitForCommunicationThreads  BY <2>6 DEF WaitForCommunicationThreads
  <2> QED  BY <1>1, <2>1, <2>2, <2>3, <2>4, <2>5, <2>6 DEF CreatStep
<1>2. CASE SendThread
  <2>1. CASE SendThreadStart  BY <2>1 DEF SendThreadStart
  <2>2. CASE WaitForMessagesToSend  BY <2>2 DEF WaitForMessagesToSend
  <2>3. CASE SendThreadCheck  BY <2>3 DEF SendThreadCheck
  <2>4. CASE MessageSend("send")  BY <2>4, MessageSendAlive
  <2>5. CASE SignalFlushComplete  BY <2>5 DEF SignalFlushComplete
  <2>6. CASE MarkFailed("send")  BY <2>6, MarkFailedAlive
  <2>7. CASE SendThreadExit  BY <2>7 DEF SendThreadExit
  <2> QED  BY <1>2, <2>1, <2>2, <2>3, <2>4, <2>5, <2>6, <2>7 DEF SendThread
<1>3. CASE RecvThread
  <2>1. CASE RecvThreadStart  BY <2>1 DEF RecvThreadStart
  <2>2. CASE RecvThreadCheck  BY <2>2 DEF RecvThreadCheck
  <2>3. CASE RecvEnter  BY <2>3 DEF RecvEnter
  <2>4. CASE RecvEOF  BY <2>4 DEF RecvEOF
  <2>5. CASE RecvCancelled  BY <2>5 DEF RecvCancelled
  <2>6. CASE MarkFailed("recv")  BY <2>6, MarkFailedAlive
  <2>7. CASE RecvThreadExit  BY <2>7 DEF RecvThreadExit
  <2> QED  BY <1>3, <2>1, <2>2, <2>3, <2>4, <2>5, <2>6, <2>7 DEF RecvThread
<1>4. CASE RecvData \/ RecvElsewhere
  BY <1>4 DEF RecvData, RecvElsewhere
<1>5. ASSUME NEW u \in Users,
             UserSend(u) \/ UserFlush(u) \/ WaitForFlushCompletion(u, "idle")
      PROVE  AliveInv'
  <2>1. CASE UserSend(u)  BY <2>1 DEF UserSend
  <2>2. CASE UserFlush(u)  BY <2>2 DEF UserFlush
  <2>3. CASE WaitForFlushCompletion(u, "idle")  BY <2>3 DEF WaitForFlushCompletion
  <2> QED  BY <1>5, <2>1, <2>2, <2>3
<1>6. CASE EdtDetects  BY <1>6 DEF EdtDetects
<1>7. CASE MarkFailed("edt")  BY <1>7, MarkFailedAlive
<1>8. CASE ShutdownBegin \/ ShutStep
  <2>1. CASE ShutdownBegin  BY <2>1 DEF ShutdownBegin
  <2>2. CASE WaitForFlushCompletion("shut", "getids")  BY <2>2 DEF WaitForFlushCompletion
  <2>3. CASE ShutdownReadIds  BY <2>3 DEF ShutdownReadIds
  <2>4. CASE StopBegin  BY <2>4 DEF StopBegin
  <2>5. CASE MessageSend("shut")  BY <2>5, MessageSendAlive
  <2>6. CASE StopShutdownWrite  BY <2>6 DEF StopShutdownWrite
  <2>7. CASE StopWakeSend  BY <2>7 DEF StopWakeSend
  <2>8. CASE StopDrain  BY <2>8 DEF StopDrain
  <2>9. CASE StopClose  BY <2>9 DEF StopClose, CloseDataSocket
  <2>10. CASE JoinRecv  BY <2>10 DEF JoinRecv
  <2>11. CASE JoinSend  BY <2>11 DEF JoinSend
  <2> QED  BY <1>8, <2>1, <2>2, <2>3, <2>4, <2>5, <2>6, <2>7, <2>8, <2>9, <2>10, <2>11 DEF ShutStep
<1>9. CASE RemoteFails \/ RemoteClosesAfterEOF \/ DescriptorReused
  BY <1>9 DEF RemoteFails, RemoteClosesAfterEOF, DescriptorReused
<1>10. CASE UNCHANGED vars  BY <1>10 DEF vars
<1> QED  BY <1>1, <1>2, <1>3, <1>4, <1>5, <1>6, <1>7, <1>8, <1>9, <1>10 DEF Next


\* A step of Message::send of any thread keeps what the shutdown has to write in sight.
LEMMA MessageSendStop ==
  ASSUME FifoInv, AliveInv, StopInv, FifoOrder', TypeOK', NEW t \in {"creat", "send", "shut"}, MessageSend(t)
  PROVE  StopInv'
<1> USE DEF FifoInv, TypeOK, PcTypeOK, MsgTypeOK, At, Goto, Threads, NoOne
<1>0. /\ wire \in Seq(Packet) /\ queued \in Seq(Packet) /\ packets \in Seq(Packet)
      /\ batch[t] \in Seq(Packet) /\ stopMark \in Nat /\ t \in Threads /\ t # NoOne
      /\ Len(wire) \in Nat /\ Len(batch["shut"]) \in Nat /\ Len(queued) \in Nat /\ Len(wire') \in Nat
  BY PacketSeqs
<1>1. UNCHANGED <<queued, stopMark>> /\ pc["edt"] = pc'["edt"] /\ (t # "shut" => pc'["shut"] = pc["shut"])
  BY DEF MessageSend, ReadFd, SendBlocked, SendNothing, SendTake, WriteAccepted, WriteBroken, WriteRefused,
         WriteStray, SendReturn, histVars
<1>2. stopMark <= Len(queued)
  BY DEF StopInv
<1>3. CASE ReadFd(t) \/ SendBlocked(t)
  <2>1. UNCHANGED <<wire, lost, batch, remote>>
    BY <1>3 DEF ReadFd, SendBlocked, histVars, sockVars
  <2>2. pc'["shut"] = pc["shut"] \/ pc'["shut"] = "ms"
    BY <1>3 DEF ReadFd, SendBlocked
  <2> QED  BY <1>1, <2>1, <2>2 DEF StopInv
<1>4. CASE SendNothing(t)
  <2>1. UNCHANGED <<wire, lost, batch, remote>> /\ packets = <<>> /\ sendLock = NoOne
    BY <1>4 DEF SendNothing, histVars, sockVars
  <2>2. CASE t # "shut"
    BY <1>1, <2>1, <2>2 DEF StopInv
  <2>3. CASE t = "shut"
    <3>1. pc["shut"] = "ms" /\ pc'["shut"] = "shutwr"
      BY <1>4, <2>3 DEF SendNothing, AfterSend
    <3>2. ASSUME remote = "up", pc["edt"] = "idle" PROVE stopMark <= Len(wire)
      <4>1. ~lost
        BY <3>1, <3>2 DEF AliveInv, AfterStop
      <4>2. queued = wire \o <<>> \o <<>>
        BY <2>1, <4>1 DEF FifoOrder, InFlight
      <4>3. queued = wire
        BY <1>0, <4>2, ConcatEmptySeq
      <4> QED  BY <1>2, <4>3
    <3> QED  BY <1>1, <1>2, <2>1, <3>1, <3>2 DEF StopInv
  <2> QED  BY <2>2, <2>3
<1>5. CASE SendTake(t)
  <2>1. /\ UNCHANGED <<wire, lost, remote>> /\ sendLock = NoOne /\ pc'[t] = "write"
        /\ batch' = [batch EXCEPT ![t] = packets]
    BY <1>0, <1>5 DEF SendTake, histVars, sockVars
  <2>2. CASE t # "shut"
    <3>1. batch'["shut"] = batch["shut"]
      BY <2>1, <2>2
    <3> QED  BY <1>1, <2>1, <2>2, <3>1 DEF StopInv
  <2>3. CASE t = "shut"
    <3>1. batch'["shut"] = packets
      BY <2>1, <2>3
    <3>2. ASSUME ~lost PROVE stopMark <= Len(wire) + Len(packets)
      <4>1. queued = wire \o <<>> \o packets
        BY <2>1, <3>2 DEF FifoOrder, InFlight
      <4>2. queued = wire \o packets
        BY <1>0, <4>1, ConcatEmptySeq
      <4>3. Len(queued) = Len(wire) + Len(packets)
        BY <1>0, <4>2, ConcatProperties
      <4> QED  BY <1>2, <4>3
    <3> QED  BY <1>1, <1>2, <2>1, <2>3, <3>1, <3>2 DEF StopInv
  <2> QED  BY <2>2, <2>3
<1>6. CASE WriteAccepted(t)
  <2>1. UNCHANGED <<lost, remote>> /\ wire' = wire \o batch[t] /\ Len(wire') = Len(wire) + Len(batch[t])
    BY <1>0, <1>6, ConcatProperties DEF WriteAccepted
  <2>2. Len(batch[t]) \in Nat /\ pc[t] = "write" /\ pc'[t] # "write"
    BY <1>0, <1>6 DEF WriteAccepted, SendReturn, AfterSend
  <2>3. CASE t # "shut"
    <3>1. pc["shut"] # "write"
      BY <1>0, <2>2, <2>3 DEF LockInv
    <3>2. pc'["shut"] # "write" /\ pc'["shut"] = pc["shut"] /\ remote' = remote /\ stopMark' = stopMark
      BY <1>1, <2>1, <2>3, <3>1
    <3>3. Len(wire) <= Len(wire')
      BY <1>0, <2>1, <2>2
    <3>4. stopMark <= Len(wire) => stopMark <= Len(wire')
      BY <1>0, <3>3
    <3> QED  BY <1>1, <1>2, <3>2, <3>4 DEF StopInv
  <2>4. CASE t = "shut"
    <3>1. ~lost
      BY <1>6 DEF WriteAccepted, LossInv
    <3>2. stopMark <= Len(wire')
      BY <2>1, <2>2, <2>4, <3>1 DEF StopInv
    <3> QED  BY <1>1, <1>2, <2>2, <2>4, <3>2 DEF StopInv
  <2> QED  BY <2>3, <2>4
<1>7. CASE WriteBroken(t)
  <2>1. remote' # "up" /\ lost' = TRUE
    BY <1>7 DEF WriteBroken
  <2> QED  BY <1>1, <1>2, <2>1 DEF StopInv
<1>8. CASE WriteRefused(t) \/ WriteStray(t)
  <2>1. lost' = TRUE /\ UNCHANGED <<wire, remote>> /\ pc[t] = "write" /\ sock # "open"
    BY <1>0, <1>8 DEF WriteRefused, WriteStray, FdInv
  <2>2. CASE t # "shut"
    BY <1>1, <2>1, <2>2 DEF StopInv
  <2>3. CASE t = "shut"
    <3>1. ~(remote = "up" /\ pc["edt"] = "idle")
      BY <2>1, <2>3 DEF AliveInv, AfterStop
    <3> QED  BY <1>1, <1>2, <2>1, <3>1 DEF StopInv
  <2> QED  BY <2>2, <2>3
<1> QED  BY <1>3, <1>4, <1>5, <1>6, <1>7, <1>8 DEF MessageSend

\* What a step that is not one of Message::send can do to the shutdown and to the peer.
LEMMA StopKinds ==
  ASSUME TypeOK, [Next]_vars
  PROVE  \/ \E t \in {"creat", "send", "shut"} : MessageSend(t)
         \/ /\ UNCHANGED <<wire, batch, lost>> /\ Len(queued) <= Len(queued')
            /\ remote' = "up" => remote = "up"
            /\ pc'["edt"] = "idle" => pc["edt"] = "idle"
            /\ \/ stopMark' = Len(queued') /\ pc'["shut"] = "fdread"
               \/ /\ stopMark' = stopMark
                  /\ \/ pc'["shut"] \notin {"write", "shutwr", "wakesend", "drain", "close", "joinrecv"}
                     \/ pc'["shut"] = pc["shut"]
                     \/ pc["shut"] \in {"shutwr", "wakesend", "drain", "close"} /\ pc'["shut"] # "write"
<1> USE DEF TypeOK, PcTypeOK, StateTypeOK, MsgTypeOK, At, Goto, Threads, msgVars, histVars, sockVars, EdtLabels, MarkLabels
<1>0. Len(queued) \in Nat /\ \A p \in Packet : Len(queued) <= Len(Append(queued, p))
  BY PacketSeqs DEF Packet
<1>1. CASE CreatStep
  BY <1>0, <1>1, PacketNames DEF CreatStep, CreatSendDirectly, CreateSendThread, CreateRecvThread,
     SetThreadIds, WaitForCommunicationThreads, AddPacket
<1>2. ASSUME NEW t \in {"send", "recv", "edt"}, MarkFailed(t)
      PROVE  /\ UNCHANGED <<wire, batch, lost, remote, stopMark>> /\ Len(queued) <= Len(queued')
             /\ pc'["edt"] = "idle" => pc["edt"] = "idle"
             /\ pc'["shut"] = pc["shut"]
  BY <1>0, <1>2, PacketNames DEF MarkFailed, MarkCheck, MarkSet, MarkAdd, MarkClose, AddPacket, AfterMark
<1>3. CASE SendThread
  BY <1>0, <1>2, <1>3 DEF SendThread, SendThreadStart, WaitForMessagesToSend, SendThreadCheck,
     SignalFlushComplete, SendThreadExit
<1>4. CASE RecvThread \/ RecvData \/ RecvElsewhere
  BY <1>0, <1>2, <1>4 DEF RecvThread, RecvThreadStart, RecvThreadCheck, RecvEnter, RecvEOF,
     RecvCancelled, RecvThreadExit, RecvData, RecvElsewhere
<1>5. ASSUME NEW u \in Users,
             UserSend(u) \/ UserFlush(u) \/ WaitForFlushCompletion(u, "idle")
      PROVE  /\ UNCHANGED <<wire, batch, lost, remote, stopMark>> /\ Len(queued) <= Len(queued')
             /\ pc'["edt"] = pc["edt"] /\ pc'["shut"] = pc["shut"]
  BY <1>0, <1>5, PacketNames DEF UserSend, UserFlush, WaitForFlushCompletion, AddPacket
<1>6. CASE EdtDetects \/ MarkFailed("edt")
  BY <1>0, <1>2, <1>6 DEF EdtDetects
<1>7. CASE ShutdownBegin \/ ShutStep
  <2>1. CASE StopBegin
    BY <1>0, <2>1 DEF StopBegin
  <2>2. CASE StopWakeSend
    BY <1>0, <2>2, PacketNames DEF StopWakeSend, AddPacket
  <2>3. CASE ShutdownBegin \/ WaitForFlushCompletion("shut", "getids") \/ ShutdownReadIds
    BY <1>0, <2>3 DEF ShutdownBegin, WaitForFlushCompletion, ShutdownReadIds
  <2>4. CASE StopShutdownWrite \/ StopDrain \/ StopClose \/ JoinRecv \/ JoinSend
    BY <1>0, <2>4 DEF StopShutdownWrite, StopDrain, StopClose, JoinRecv, JoinSend
  <2> QED  BY <1>7, <2>1, <2>2, <2>3, <2>4 DEF ShutStep
<1>8. CASE RemoteFails \/ RemoteClosesAfterEOF \/ DescriptorReused
  BY <1>0, <1>8 DEF RemoteFails, RemoteClosesAfterEOF, DescriptorReused
<1>9. CASE UNCHANGED vars  BY <1>0, <1>9 DEF vars
<1> QED  BY <1>1, <1>3, <1>4, <1>5, <1>6, <1>7, <1>8, <1>9 DEF Next

\* Every step keeps what the shutdown has to write in sight.
LEMMA NextStop ==
  ASSUME FifoInv, AliveInv, StopInv, FifoOrder', TypeOK', [Next]_vars
  PROVE  StopInv'
<1>0. stopMark \in Nat /\ Len(queued) \in Nat /\ Len(queued') \in Nat
  BY PacketSeqs DEF FifoInv, TypeOK, MsgTypeOK
<1>1. CASE \E t \in {"creat", "send", "shut"} : MessageSend(t)
  BY <1>1, MessageSendStop
<1>2. ASSUME /\ UNCHANGED <<wire, batch, lost>> /\ Len(queued) <= Len(queued')
             /\ stopMark' = Len(queued') /\ pc'["shut"] = "fdread"
      PROVE  StopInv'
  BY <1>0, <1>2 DEF StopInv
<1>3. ASSUME /\ UNCHANGED <<wire, batch, lost, stopMark>> /\ Len(queued) <= Len(queued')
             /\ remote' = "up" => remote = "up"
             /\ pc'["edt"] = "idle" => pc["edt"] = "idle"
             /\ \/ pc'["shut"] \notin {"write", "shutwr", "wakesend", "drain", "close", "joinrecv"}
                \/ pc'["shut"] = pc["shut"]
                \/ pc["shut"] \in {"shutwr", "wakesend", "drain", "close"} /\ pc'["shut"] # "write"
      PROVE  StopInv'
  BY <1>0, <1>3 DEF StopInv
<1> QED  BY <1>1, <1>2, <1>3, StopKinds DEF FifoInv

\* The arguments of the communication threads are not freed before both have read them,
\* whichever order the three threads run in (start_CommunicationThreads, send_thread_main,
\* recv_thread_main).
THEOREM ArgsNotDanglingTheorem == Spec => []ArgsNotDangling
<1>1. Init => StartInv
  BY DEF Init, StartInv, Threads, SendLabels
<1>2. FifoInv /\ StartInv /\ [Next]_vars => StartInv'
  BY NextStart DEF FifoInv
<1>3. StartInv => ArgsNotDangling
  BY DEF StartInv, ArgsNotDangling
<1> QED  BY <1>1, <1>2, <1>3, FifoInductive, PTL DEF Spec

\* For any number of users and packets, and whatever the other threads of the process do:
\* when stop_CommunicationThreads has cleared the send buffer of a peer that runs and that
\* nobody declared failed, everything queued before it began is on the wire.
THEOREM ShutdownLosesNothingTheorem == Spec => []ShutdownLosesNothing
<1>1. Init => AliveInv /\ StopInv
  <2> SUFFICES ASSUME Init PROVE AliveInv /\ StopInv
    OBVIOUS
  <2>1. AliveInv
    BY DEF Init, AliveInv, Threads, MarkLabels
  <2>2. StopInv
    BY DEF Init, StopInv, Threads
  <2> QED  BY <2>1, <2>2
<1>2. FifoInv /\ FifoInv' /\ AliveInv /\ StopInv /\ [Next]_vars => AliveInv' /\ StopInv'
  BY NextAlive, NextStop DEF FifoInv
<1>3. FifoInv /\ StopInv => ShutdownLosesNothing
  <2> SUFFICES ASSUME FifoInv, StopInv, stopMark <= Len(wire) PROVE IsPrefix(SubSeq(queued, 1, stopMark), wire)
    BY DEF StopInv, ShutdownLosesNothing
  <2>1. wire \in Seq(Packet) /\ queued \in Seq(Packet) /\ stopMark \in Nat /\ IsPrefix(wire, queued)
    BY DEF FifoInv, TypeOK, MsgTypeOK, FifoOrder
  <2>2. Len(wire) \in Nat /\ Len(wire) <= Len(queued) /\ SubSeq(wire, 1, Len(wire)) = SubSeq(queued, 1, Len(wire))
    BY <2>1 DEF IsPrefix
  <2>3. \A i \in 1 .. Len(wire) : wire[i] = queued[i]
    BY <2>1, <2>2
  <2> DEFINE s == SubSeq(queued, 1, stopMark)
  <2>4. s \in Seq(Packet) /\ Len(s) = stopMark /\ \A i \in 1 .. stopMark : s[i] = queued[i]
    BY <2>1, <2>2
  <2> HIDE DEF s
  <2>5. SubSeq(s, 1, Len(s)) = SubSeq(wire, 1, Len(s))
    BY <2>1, <2>2, <2>3, <2>4
  <2>6. IsPrefix(s, wire)
    BY <2>1, <2>2, <2>4, <2>5 DEF IsPrefix
  <2> QED  BY <2>6 DEF s
<1> QED  BY <1>1, <1>2, <1>3, FifoInductive, PTL DEF Spec
=============================================================================
