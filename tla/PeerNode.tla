------------------------------ MODULE PeerNode ------------------------------
(***************************************************************************)
(* One end of a connection between two MRNet processes: class PeerNode     *)
(* (src/src/PeerNode.C) with its outgoing Message (src/src/Message.C).     *)
(*                                                                         *)
(* Threads: "creat" opens the connection (sendDirectly, then               *)
(* start_CommunicationThreads), "send" and "recv" are the communication    *)
(* threads, "edt" is the event detection thread that declares the peer     *)
(* failed, "shut" runs shutdown_Network, and the members of Users are the  *)
(* threads that call PeerNode::send and PeerNode::flush.                   *)
(*                                                                         *)
(* Monitors: _sync is held across a step only by "shut" (variable sync);   *)
(* everybody else takes and releases it within one action.  _packet_sync   *)
(* and _send_sync are pktLock and sendLock.  A thread blocked in           *)
(* WaitOnCondition is in waiting; the condition is the one of its label.   *)
(***************************************************************************)
EXTENDS Integers, Sequences, FiniteSets, SequencesExt

CONSTANTS Users,          \* threads that send packets and flush
          MaxPackets,     \* bound: packets queued by users
          PeerIsChild,    \* TRUE: link to a child, FALSE: link to the parent
          Actors,         \* which of "edt" and "shut" take part
          Faults          \* "remote": the remote process may die at any time,
                          \* "create": Thread::Create may return an error,
                          \* "reuse": this process opens other descriptors

ASSUME MaxPacketsAssumption == MaxPackets \in Nat
ASSUME UsersAssumption == Users \cap {"creat", "send", "recv", "edt", "shut", "none"} = {}
ASSUME PeerIsChildAssumption == PeerIsChild \in BOOLEAN
ASSUME ActorsAssumption == Actors \subseteq {"edt", "shut"}
ASSUME FaultsAssumption == Faults \subseteq {"remote", "create", "reuse"}

VARIABLES
  pc,          \* control location of every thread
  waiting,     \* threads blocked in Monitor::WaitOnCondition
  started,     \* _send_thread_started, _recv_thread_started
  ids,         \* send_thread_id # 0, recv_thread_id # 0
  argsLive,    \* the malloc'ed send_recv_args_t has not been freed
  available,   \* _available
  sync,        \* "shut" while stop_CommunicationThreads holds _sync
  sock,        \* _data_sock_fd: "open", "wrshut", "closed" (invalid) or
               \* "reused" (invalid, its number now names another connection)
  remote,      \* "up", "gone" (its end is closed), "reset" (writes fail)
  packets,     \* Message::_packets
  batch,       \* send_packets of the thread that is inside Message::send
  pktLock,     \* owner of _packet_sync while it waits for _send_sync
  sendLock,    \* owner of _send_sync
  fd,          \* the descriptor a thread passed to send or recv is valid
  nextPkt,     \* next packet identity
  shutdown,    \* what shutdown_Network remembers: was the send thread id set, the
               \* return value of stop_CommunicationThreads, Thread::Cancel
  \* history variables
  queued,      \* every packet add_Packet accepted, in order
  wire,        \* packets accepted by the kernel for this connection, in order
  stray,       \* packets written to a connection that reused the descriptor
  lost,        \* some batch was taken from _packets and not (wholly) written
  stopMark     \* Len(queued) when "shut" entered stop_CommunicationThreads

startVars == <<started, ids, argsLive>>
sockVars  == <<sock, remote>>
msgVars   == <<packets, batch, pktLock, sendLock, fd, nextPkt>>
histVars  == <<queued, wire, stray, lost, stopMark>>
vars == <<pc, waiting, startVars, available, sync, sockVars, msgVars,
          shutdown, histVars>>

PROT_SHUTDOWN == 0
FirstPacket == MaxPackets + 1   \* PROT_NEW_CHILD_DATA_CONNECTION or PROT_NET_SETTINGS
Packet  == 0 .. MaxPackets + 1
Threads == Users \cup {"creat", "send", "recv", "edt", "shut"}
NoOne   == "none"

\* Control locations: inside Message::send, inside mark_Failed, and of each thread.
SendLabels  == {"fdread", "ms", "write"}
MarkLabels  == {"mf_check", "mf_set", "mf_add", "mf_close"}
UserLabels  == {"idle", "flush"}
CreatLabels == {"init", "createsend", "createrecv", "ids", "waitrecv", "done", "gone"}
                 \cup SendLabels
SendThreadLabels == {"idle", "start", "waitmsg", "check", "signal", "sigfail", "exit",
                     "exited", "gone"} \cup SendLabels \cup MarkLabels
RecvThreadLabels == {"idle", "start", "waitsend", "loop", "enter", "blocked", "elsewhere",
                     "rexit", "exited", "gone"} \cup MarkLabels
EdtLabels   == {"idle", "done"} \cup MarkLabels
ShutLabels  == {"idle", "flush", "getids", "stop", "shutwr", "wakesend", "drain", "close",
                "joinrecv", "joinsend", "done", "gone"} \cup SendLabels
Labels == UserLabels \cup CreatLabels \cup SendThreadLabels \cup RecvThreadLabels
            \cup EdtLabels \cup ShutLabels

At(t, l) == pc[t] = l /\ t \notin waiting
Goto(t, l) == pc' = [pc EXCEPT ![t] = l]
\* The thread can enter a critical section of PeerNode::_sync.
SyncFree(t) == sync \in {NoOne, t}
\* SignalCondition / BroadcastCondition for the threads that wait at label l.
Notified(l) == {t \in waiting : pc[t] = l}

Init ==
  /\ pc = [t \in Threads |-> IF t = "creat" THEN "init" ELSE "idle"]
  /\ waiting = {}
  /\ started = [send |-> FALSE, recv |-> FALSE]
  /\ ids = [send |-> FALSE, recv |-> FALSE]
  /\ argsLive = TRUE
  /\ available = TRUE
  /\ sync = NoOne
  /\ sock = "open" /\ remote = "up"
  /\ packets = <<>> /\ batch = [t \in Threads |-> <<>>]
  /\ pktLock = NoOne /\ sendLock = NoOne
  /\ fd = [t \in Threads |-> FALSE]
  /\ nextPkt = 1
  /\ shutdown = [send |-> FALSE, ok |-> TRUE, cancel |-> FALSE]
  /\ queued = <<>> /\ wire = <<>> /\ stray = <<>> /\ lost = FALSE /\ stopMark = 0

-----------------------------------------------------------------------------
(* Message::add_Packet, size_Packets, waitfor_MessagesToSend, send           *)

\* Faulty: the packet is appended without a signal.
AddPacketSilent(p) ==
  /\ pktLock = NoOne
  /\ packets' = Append(packets, p)
  /\ queued' = Append(queued, p)
  /\ UNCHANGED waiting

\* add_Packet: append and signal MRN_QUEUE_NONEMPTY, under _packet_sync.
AddPacket(p) ==
  /\ pktLock = NoOne
  /\ packets' = Append(packets, p)
  /\ queued' = Append(queued, p)
  /\ waiting' = waiting \ Notified("waitmsg")

\* The caller evaluates _data_sock_fd, without a lock, to pass it to send.
ReadFd(t) ==
  /\ At(t, "fdread")
  /\ fd' = [fd EXCEPT ![t] = sock \in {"open", "wrshut"}]
  /\ Goto(t, "ms")
  /\ UNCHANGED <<waiting, startVars, available, sync, sockVars, packets, batch, pktLock,
                 sendLock, nextPkt, shutdown, histVars>>

\* Where the caller of Message::send goes when send returns.
AfterSend(t, ok) ==
  CASE t = "send"  -> IF ok THEN "signal" ELSE "mf_check"
    [] t = "creat" -> IF ok \/ PeerIsChild THEN "createsend" ELSE "done"
    [] OTHER       -> "shutwr"

\* send locks _packet_sync first and keeps it while it waits for _send_sync.
SendBlocked(t) ==
  /\ At(t, "ms") /\ pktLock = NoOne /\ sendLock # NoOne
  /\ pktLock' = t
  /\ UNCHANGED <<pc, waiting, startVars, available, sync, sockVars, packets, batch,
                 sendLock, fd, nextPkt, shutdown, histVars>>

\* Faulty: the emptiness test precedes the acquisition of _send_sync.
SendNothingEarly(t) ==
  /\ At(t, "ms") /\ pktLock \in {NoOne, t}
  /\ packets = <<>>
  /\ pktLock' = NoOne
  /\ fd' = [fd EXCEPT ![t] = FALSE]
  /\ Goto(t, AfterSend(t, TRUE))
  /\ UNCHANGED <<waiting, startVars, available, sync, sockVars, packets, batch,
                 sendLock, nextPkt, shutdown, histVars>>

\* Both locks held and nothing to send: send returns 0.
SendNothing(t) ==
  /\ At(t, "ms") /\ pktLock \in {NoOne, t} /\ sendLock = NoOne
  /\ packets = <<>>
  /\ pktLock' = NoOne
  /\ fd' = [fd EXCEPT ![t] = FALSE]
  /\ Goto(t, AfterSend(t, TRUE))
  /\ UNCHANGED <<waiting, startVars, available, sync, sockVars, packets, batch,
                 sendLock, nextPkt, shutdown, histVars>>

\* Faulty: the list is swapped out before _send_sync is acquired.
SendTakeUnlocked(t) ==
  /\ At(t, "ms") /\ pktLock \in {NoOne, t}
  /\ packets # <<>>
  /\ batch' = [batch EXCEPT ![t] = packets]
  /\ packets' = <<>>
  /\ pktLock' = NoOne /\ sendLock' = t
  /\ Goto(t, "write")
  /\ UNCHANGED <<waiting, startVars, available, sync, sockVars, fd, nextPkt,
                 shutdown, histVars>>

\* Faulty: the list is copied and not cleared.
SendTakeCopy(t) ==
  /\ At(t, "ms") /\ pktLock \in {NoOne, t} /\ sendLock = NoOne
  /\ packets # <<>>
  /\ batch' = [batch EXCEPT ![t] = packets]
  /\ pktLock' = NoOne /\ sendLock' = t
  /\ Goto(t, "write")
  /\ UNCHANGED <<waiting, startVars, available, sync, sockVars, packets, fd, nextPkt,
                 shutdown, histVars>>

\* Both locks held: swap out the whole list, release _packet_sync.
SendTake(t) ==
  /\ At(t, "ms") /\ pktLock \in {NoOne, t} /\ sendLock = NoOne
  /\ packets # <<>>
  /\ batch' = [batch EXCEPT ![t] = packets]
  /\ packets' = <<>>
  /\ pktLock' = NoOne /\ sendLock' = t
  /\ Goto(t, "write")
  /\ UNCHANGED <<waiting, startVars, available, sync, sockVars, fd, nextPkt,
                 shutdown, histVars>>

\* The end of send: release _send_sync, then Thread::Exit if the batch held a
\* PROT_SHUTDOWN, whichever thread this is, else return to the caller.
SendReturn(t, ok) ==
  /\ sendLock' = NoOne
  /\ batch' = [batch EXCEPT ![t] = <<>>]
  /\ fd' = [fd EXCEPT ![t] = FALSE]
  /\ Goto(t, IF PROT_SHUTDOWN \in ToSet(batch[t]) THEN "gone" ELSE AfterSend(t, ok))
  /\ UNCHANGED <<waiting, startVars, available, sync, sock, packets, pktLock, nextPkt,
                 shutdown, queued, stopMark>>

\* SocketUtils::Send writes everything.
WriteAccepted(t) ==
  /\ At(t, "write") /\ fd[t] /\ sock = "open" /\ remote # "reset"
  /\ wire' = wire \o batch[t]
  /\ SendReturn(t, TRUE)
  /\ UNCHANGED <<remote, stray, lost>>

\* Faulty: an interrupted write gives up the rest of the batch and reports success.
WriteInterrupted(t) ==
  /\ At(t, "write") /\ fd[t] /\ sock = "open"
  /\ wire' = wire \o SubSeq(batch[t], 1, Len(batch[t]) - 1)
  /\ lost' = TRUE
  /\ SendReturn(t, TRUE)
  /\ UNCHANGED <<remote, stray>>

\* SocketUtils::Send stops after k packets: the connection is broken.  (The data sockets
\* block; a writev interrupted by a signal handler is left out, see the README.)
WriteBroken(t) ==
  /\ At(t, "write") /\ fd[t] /\ sock = "open"
  /\ "remote" \in Faults \/ remote # "up"
  /\ \E k \in 0 .. Len(batch[t]) - 1 :
       /\ remote = "reset" => k = 0
       /\ wire' = wire \o SubSeq(batch[t], 1, k)
  /\ remote' = "reset"
  /\ lost' = TRUE
  /\ SendReturn(t, FALSE)
  /\ UNCHANGED stray

\* The descriptor was invalid, has been closed since, or is shut for writing.
WriteRefused(t) ==
  /\ At(t, "write") /\ (~fd[t] \/ sock \in {"wrshut", "closed"})
  /\ lost' = TRUE
  /\ SendReturn(t, FALSE)
  /\ UNCHANGED <<remote, wire, stray>>

\* The descriptor was read, then closed, and its number is in use again.
WriteStray(t) ==
  /\ At(t, "write") /\ fd[t] /\ sock = "reused"
  /\ stray' = stray \o batch[t]
  /\ lost' = TRUE
  /\ SendReturn(t, TRUE)
  /\ UNCHANGED <<remote, wire>>

MessageSend(t) ==
  \/ ReadFd(t) \/ SendBlocked(t) \/ SendNothing(t) \/ SendTake(t)
  \/ WriteAccepted(t) \/ WriteBroken(t) \/ WriteRefused(t) \/ WriteStray(t)

-----------------------------------------------------------------------------
(* PeerNode::mark_Failed: has_Failed and the assignment are two critical     *)
(* sections, and the socket is closed after the wake-up packet is queued.    *)

AfterMark(t) ==
  CASE t = "send" -> "sigfail"
    [] t = "recv" -> "rexit"
    [] OTHER      -> "done"

MarkCheck(t) ==
  /\ At(t, "mf_check") /\ SyncFree(t)
  /\ Goto(t, IF available THEN "mf_set" ELSE AfterMark(t))
  /\ UNCHANGED <<waiting, startVars, available, sync, sockVars, msgVars, shutdown, histVars>>

MarkSet(t) ==
  /\ At(t, "mf_set") /\ SyncFree(t)
  /\ available' = FALSE
  /\ Goto(t, "mf_add")
  /\ UNCHANGED <<waiting, startVars, sync, sockVars, msgVars, shutdown, histVars>>

\* Faulty: nothing wakes up the send thread.
MarkAddNothing(t) ==
  /\ At(t, "mf_add") /\ SyncFree(t)
  /\ Goto(t, "mf_close")
  /\ UNCHANGED <<waiting, startVars, available, sync, sockVars, msgVars, shutdown, histVars>>

\* Wake up the send thread, unless this is the send thread (by its stored id).
MarkAdd(t) ==
  /\ At(t, "mf_add") /\ SyncFree(t)
  /\ IF t = "send" /\ ids.send
       THEN UNCHANGED <<packets, queued, waiting>>
       ELSE AddPacket(PROT_SHUTDOWN)
  /\ Goto(t, "mf_close")
  /\ UNCHANGED <<startVars, available, sync, sockVars, batch, pktLock, sendLock, fd, nextPkt,
                 shutdown, wire, stray, lost, stopMark>>

\* close_DataSocket
CloseDataSocket == sock' = IF sock \in {"open", "wrshut"} THEN "closed" ELSE sock

MarkClose(t) ==
  /\ At(t, "mf_close") /\ SyncFree(t)
  /\ CloseDataSocket
  /\ Goto(t, AfterMark(t))
  /\ UNCHANGED <<waiting, startVars, available, sync, remote, msgVars, shutdown,
                 histVars>>

MarkFailed(t) == MarkCheck(t) \/ MarkSet(t) \/ MarkAdd(t) \/ MarkClose(t)

-----------------------------------------------------------------------------
(* The thread that opens the link: sendDirectly of the first packet          *)
(* (ChildNode::init_newChildDataConnection, ParentNode::                     *)
(* proc_NewChildDataConnection), then start_CommunicationThreads.            *)

CreatSendDirectly ==
  /\ At("creat", "init")
  /\ AddPacket(FirstPacket)
  /\ Goto("creat", "fdread")
  /\ UNCHANGED <<startVars, available, sync, sockVars, batch, pktLock, sendLock, fd, nextPkt,
                 shutdown, wire, stray, lost, stopMark>>

\* Thread::Create of the send thread; on an error start_CommunicationThreads returns.
CreateSendThread ==
  /\ At("creat", "createsend")
  /\ \/ pc' = [pc EXCEPT !["creat"] = "createrecv", !["send"] = "start"]
     \/ "create" \in Faults /\ Goto("creat", "done")
  /\ UNCHANGED <<waiting, startVars, available, sync, sockVars, msgVars, shutdown,
                 histVars>>

CreateRecvThread ==
  /\ At("creat", "createrecv")
  /\ \/ pc' = [pc EXCEPT !["creat"] = "ids", !["recv"] = "start"]
     \/ "create" \in Faults /\ Goto("creat", "done")
  /\ UNCHANGED <<waiting, startVars, available, sync, sockVars, msgVars, shutdown,
                 histVars>>

SetThreadIds ==
  /\ At("creat", "ids") /\ SyncFree("creat")
  /\ ids' = [send |-> TRUE, recv |-> TRUE]
  /\ Goto("creat", "waitrecv")
  /\ UNCHANGED <<waiting, started, argsLive, available, sync, sockVars, msgVars, shutdown,
                 histVars>>

\* waitfor_CommunicationThreads, then free(args).
WaitForCommunicationThreads ==
  /\ At("creat", "waitrecv") /\ SyncFree("creat")
  /\ IF started.recv
       THEN Goto("creat", "done") /\ argsLive' = FALSE /\ UNCHANGED waiting
       ELSE waiting' = waiting \cup {"creat"} /\ UNCHANGED <<pc, argsLive>>
  /\ UNCHANGED <<started, ids, available, sync, sockVars, msgVars, shutdown, histVars>>

CreatStep ==
  \/ CreatSendDirectly \/ MessageSend("creat")
  \/ CreateSendThread \/ CreateRecvThread \/ SetThreadIds \/ WaitForCommunicationThreads

-----------------------------------------------------------------------------
(* PeerNode::send_thread_main                                                *)

SendThreadStart ==
  /\ At("send", "start") /\ SyncFree("send")
  /\ started' = [started EXCEPT !.send = TRUE]
  /\ waiting' = waiting \ Notified("waitsend")
  /\ Goto("send", "waitmsg")
  /\ UNCHANGED <<ids, argsLive, available, sync, sockVars, msgVars, shutdown, histVars>>

WaitForMessagesToSend ==
  /\ At("send", "waitmsg") /\ pktLock = NoOne
  /\ IF packets = <<>>
       THEN waiting' = waiting \cup {"send"} /\ UNCHANGED pc
       ELSE Goto("send", "check") /\ UNCHANGED waiting
  /\ UNCHANGED <<startVars, available, sync, sockVars, msgVars, shutdown, histVars>>

\* has_Failed: break out of the loop, without signal_FlushComplete.
SendThreadCheck ==
  /\ At("send", "check") /\ SyncFree("send")
  /\ Goto("send", IF available THEN "fdread" ELSE "exit")
  /\ UNCHANGED <<waiting, startVars, available, sync, sockVars, msgVars, shutdown,
                 histVars>>

SignalFlushCompleteNobody ==
  /\ pc["send"] \in {"signal", "sigfail"} /\ SyncFree("send")
  /\ Goto("send", IF pc["send"] = "signal" THEN "waitmsg" ELSE "exit")
  /\ UNCHANGED <<waiting, startVars, available, sync, sockVars, msgVars, shutdown, histVars>>
\* signal_FlushComplete, after a successful send or after mark_Failed.
SignalFlushComplete ==
  /\ pc["send"] \in {"signal", "sigfail"} /\ SyncFree("send")
  /\ waiting' = waiting \ Notified("flush")
  /\ Goto("send", IF pc["send"] = "signal" THEN "waitmsg" ELSE "exit")
  /\ UNCHANGED <<startVars, available, sync, sockVars, msgVars, shutdown, histVars>>

SendThreadExit ==
  /\ At("send", "exit") /\ SyncFree("send")
  /\ ids' = [ids EXCEPT !.send = FALSE]
  /\ Goto("send", "exited")
  /\ UNCHANGED <<waiting, started, argsLive, available, sync, sockVars, msgVars, shutdown,
                 histVars>>

SendThread ==
  \/ SendThreadStart \/ WaitForMessagesToSend \/ SendThreadCheck
  \/ MessageSend("send") \/ SignalFlushComplete \/ MarkFailed("send") \/ SendThreadExit

-----------------------------------------------------------------------------
(* PeerNode::recv_thread_main                                                *)

\* Faulty: the receive thread does not wait for the send thread.
RecvThreadStartAlone ==
  /\ At("recv", "start") /\ SyncFree("recv")
  /\ started' = [started EXCEPT !.recv = TRUE]
  /\ waiting' = waiting \ Notified("waitrecv")
  /\ Goto("recv", "loop")
  /\ UNCHANGED <<ids, argsLive, available, sync, sockVars, msgVars, shutdown, histVars>>

\* Read args, then wait until the send thread runs; tell the creator.
RecvThreadStart ==
  /\ pc["recv"] \in {"start", "waitsend"} /\ "recv" \notin waiting /\ SyncFree("recv")
  /\ IF started.send
       THEN /\ started' = [started EXCEPT !.recv = TRUE]
            /\ waiting' = waiting \ Notified("waitrecv")
            /\ Goto("recv", "loop")
       ELSE /\ waiting' = waiting \cup {"recv"}
            /\ Goto("recv", "waitsend")
            /\ UNCHANGED started
  /\ UNCHANGED <<ids, argsLive, available, sync, sockVars, msgVars, shutdown, histVars>>

\* has_Failed, then the descriptor is read for the blocking recv.
RecvThreadCheck ==
  /\ At("recv", "loop") /\ SyncFree("recv")
  /\ IF available
       THEN Goto("recv", "enter") /\ fd' = [fd EXCEPT !["recv"] = sock \in {"open", "wrshut"}]
       ELSE Goto("recv", "rexit") /\ UNCHANGED fd
  /\ UNCHANGED <<waiting, startVars, available, sync, sockVars, packets, batch, pktLock,
                 sendLock, nextPkt, shutdown, histVars>>

\* Entering recv(2): an error if the descriptor is not (any longer) a socket; the
\* bytes of another connection if its number has been reused in the meantime.
RecvEnter ==
  /\ At("recv", "enter")
  /\ Goto("recv", CASE fd["recv"] /\ sock \in {"open", "wrshut"} -> "blocked"
                    [] fd["recv"] /\ sock = "reused"            -> "elsewhere"
                    [] OTHER                                    -> "mf_check")
  /\ fd' = [fd EXCEPT !["recv"] = FALSE]
  /\ UNCHANGED <<waiting, startVars, available, sync, sockVars, packets, batch, pktLock,
                 sendLock, nextPkt, shutdown, histVars>>

\* The remote end is closed: recv(2) returns.  close(2) by another thread of this
\* process does not make it return.
RecvEOF ==
  /\ At("recv", "blocked") /\ remote # "up"
  /\ Goto("recv", "mf_check")
  /\ UNCHANGED <<waiting, startVars, available, sync, sockVars, msgVars, shutdown,
                 histVars>>

\* A message arrives and is handed to proc_PacketsFromParent / FromChildren.
RecvData ==
  /\ At("recv", "blocked") /\ remote = "up"
  /\ Goto("recv", "loop")
  /\ UNCHANGED <<waiting, startVars, available, sync, sockVars, msgVars, shutdown,
                 histVars>>

\* Blocked on a connection that is not this peer's: it may do anything.
RecvElsewhere ==
  /\ At("recv", "elsewhere")
  /\ \E l \in {"loop", "mf_check"} : Goto("recv", l)
  /\ UNCHANGED <<waiting, startVars, available, sync, sockVars, msgVars, shutdown,
                 histVars>>

\* recv(2) is a cancellation point: Thread::Cancel ends the thread there.
RecvCancelled ==
  /\ pc["recv"] \in {"enter", "blocked", "elsewhere"} /\ shutdown.cancel
  /\ Goto("recv", "gone")
  /\ UNCHANGED <<waiting, startVars, available, sync, sockVars, msgVars, shutdown,
                 histVars>>

RecvThreadExit ==
  /\ At("recv", "rexit") /\ SyncFree("recv")
  /\ ids' = [ids EXCEPT !.recv = FALSE]
  /\ Goto("recv", "exited")
  /\ UNCHANGED <<waiting, started, argsLive, available, sync, sockVars, msgVars, shutdown,
                 histVars>>

RecvThread ==
  \/ RecvThreadStart \/ RecvThreadCheck \/ RecvEnter \/ RecvEOF
  \/ RecvCancelled \/ MarkFailed("recv") \/ RecvThreadExit

-----------------------------------------------------------------------------
(* PeerNode::send and PeerNode::flush                                        *)

UserSend(u) ==
  /\ pc[u] = "idle" /\ nextPkt <= MaxPackets
  /\ AddPacket(nextPkt)
  /\ nextPkt' = nextPkt + 1
  /\ UNCHANGED <<pc, startVars, available, sync, sockVars, batch, pktLock, sendLock, fd,
                 shutdown, wire, stray, lost, stopMark>>

UserFlush(u) ==
  /\ pc[u] = "idle"
  /\ Goto(u, "flush")
  /\ UNCHANGED <<waiting, startVars, available, sync, sockVars, msgVars, shutdown,
                 histVars>>

\* waitfor_FlushCompletion: one evaluation of the loop condition under _sync.  (Its
\* result, -1 if the peer is not available, is only logged by the callers.)
WaitForFlushCompletion(t, next) ==
  /\ At(t, "flush") /\ SyncFree(t) /\ pktLock = NoOne
  /\ IF Len(packets) > 0 /\ available
       THEN waiting' = waiting \cup {t} /\ UNCHANGED pc
       ELSE Goto(t, next) /\ UNCHANGED waiting
  /\ UNCHANGED <<startVars, available, sync, sockVars, msgVars, shutdown, histVars>>

-----------------------------------------------------------------------------
(* The event detection thread: delete_PeerNode, recover_FromParentFailure.   *)

EdtDetects ==
  /\ "edt" \in Actors /\ pc["edt"] = "idle"
  /\ Goto("edt", "mf_check")
  /\ UNCHANGED <<waiting, startVars, available, sync, sockVars, msgVars, shutdown,
                 histVars>>

-----------------------------------------------------------------------------
(* Network::shutdown_Network for this peer and stop_CommunicationThreads.    *)

ShutdownBegin ==
  /\ "shut" \in Actors /\ pc["shut"] = "idle"
  /\ Goto("shut", IF PeerIsChild THEN "flush" ELSE "getids")
  /\ UNCHANGED <<waiting, startVars, available, sync, sockVars, msgVars, shutdown,
                 histVars>>

ShutdownReadIds ==
  /\ At("shut", "getids") /\ SyncFree("shut")
  /\ shutdown' = [shutdown EXCEPT !.send = ids.send]
  /\ Goto("shut", IF ids.recv THEN "stop" ELSE "joinsend")
  /\ UNCHANGED <<waiting, startVars, available, sync, sockVars, msgVars, histVars>>

\* Take _sync (until "close"), mark as failed, clear the send buffer.
StopBegin ==
  /\ At("shut", "stop") /\ SyncFree("shut")
  /\ sync' = "shut"
  /\ available' = FALSE
  /\ stopMark' = Len(queued)
  /\ Goto("shut", "fdread")
  /\ UNCHANGED <<waiting, startVars, sockVars, msgVars, shutdown, queued, wire, stray,
                 lost>>

StopShutdownWrite ==
  /\ At("shut", "shutwr")
  /\ IF sock = "open" /\ remote # "reset"
       THEN sock' = "wrshut" /\ UNCHANGED shutdown
       ELSE shutdown' = [shutdown EXCEPT !.ok = FALSE] /\ UNCHANGED sock
  /\ Goto("shut", "wakesend")
  /\ UNCHANGED <<waiting, startVars, available, sync, remote, msgVars, histVars>>

\* Faulty: the sleeping send thread is not woken up.
StopWakeNobody ==
  /\ At("shut", "wakesend")
  /\ Goto("shut", "drain")
  /\ UNCHANGED <<waiting, startVars, available, sync, sockVars, msgVars, shutdown, histVars>>

StopWakeSend ==
  /\ At("shut", "wakesend")
  /\ AddPacket(PROT_SHUTDOWN)
  /\ Goto("shut", "drain")
  /\ UNCHANGED <<startVars, available, sync, sockVars, batch, pktLock, sendLock, fd, nextPkt,
                 shutdown, wire, stray, lost, stopMark>>

\* recv on the data socket until the remote end has closed it.
StopDrain ==
  /\ At("shut", "drain")
  /\ sock \in {"closed", "reused"} \/ remote # "up"
  /\ Goto("shut", "close")
  /\ UNCHANGED <<waiting, startVars, available, sync, sockVars, msgVars, shutdown,
                 histVars>>

StopClose ==
  /\ At("shut", "close")
  /\ CloseDataSocket
  /\ sync' = NoOne
  /\ shutdown' = [shutdown EXCEPT !.cancel = ~shutdown.ok]
  /\ Goto("shut", "joinrecv")
  /\ UNCHANGED <<waiting, startVars, available, remote, msgVars, histVars>>

Ended(t) == pc[t] \in {"exited", "gone"}

JoinRecv ==
  /\ At("shut", "joinrecv") /\ Ended("recv")
  /\ Goto("shut", "joinsend")
  /\ UNCHANGED <<waiting, startVars, available, sync, sockVars, msgVars, shutdown,
                 histVars>>

JoinSend ==
  /\ At("shut", "joinsend") /\ (shutdown.send => Ended("send"))
  /\ Goto("shut", "done")
  /\ UNCHANGED <<waiting, startVars, available, sync, sockVars, msgVars, shutdown,
                 histVars>>

ShutStep ==
  \/ WaitForFlushCompletion("shut", "getids") \/ ShutdownReadIds
  \/ StopBegin \/ MessageSend("shut") \/ StopShutdownWrite \/ StopWakeSend
  \/ StopDrain \/ StopClose \/ JoinRecv \/ JoinSend

-----------------------------------------------------------------------------
(* The remote process and the descriptor table                               *)

RemoteFails ==
  /\ "remote" \in Faults /\ remote = "up"
  /\ remote' = "gone"
  /\ UNCHANGED <<pc, waiting, startVars, available, sync, sock, msgVars, shutdown,
                 histVars>>

\* "This relies on the remote end closing the socket once it receives EOF"
RemoteClosesAfterEOF ==
  /\ sock = "wrshut" /\ remote = "up"
  /\ remote' = "gone"
  /\ UNCHANGED <<pc, waiting, startVars, available, sync, sock, msgVars, shutdown,
                 histVars>>

\* Another connection of this process gets the closed descriptor's number.
DescriptorReused ==
  /\ "reuse" \in Faults /\ sock = "closed"
  /\ sock' = "reused"
  /\ UNCHANGED <<pc, waiting, startVars, available, sync, remote, msgVars, shutdown,
                 histVars>>

Next ==
  \/ CreatStep \/ SendThread \/ RecvThread \/ RecvData \/ RecvElsewhere
  \/ \E u \in Users : UserSend(u) \/ UserFlush(u) \/ WaitForFlushCompletion(u, "idle")
  \/ EdtDetects \/ MarkFailed("edt")
  \/ ShutdownBegin \/ ShutStep
  \/ RemoteFails \/ RemoteClosesAfterEOF \/ DescriptorReused

Spec == Init /\ [][Next]_vars

\* Every thread that can run does; calls, failures and reuse may never happen.
Fairness ==
  /\ WF_vars(CreatStep) /\ WF_vars(SendThread) /\ WF_vars(RecvThread)
  /\ WF_vars(MarkFailed("edt")) /\ WF_vars(ShutStep)
  /\ \A u \in Users : WF_vars(WaitForFlushCompletion(u, "idle"))
  /\ WF_vars(RemoteClosesAfterEOF)

FairSpec == Spec /\ Fairness

-----------------------------------------------------------------------------
PcTypeOK ==
  /\ pc \in [Threads -> Labels]
  /\ pc["creat"] \in CreatLabels /\ pc["send"] \in SendThreadLabels
  /\ pc["recv"] \in RecvThreadLabels /\ pc["edt"] \in EdtLabels /\ pc["shut"] \in ShutLabels
  /\ \A u \in Users : pc[u] \in UserLabels

StateTypeOK ==
  /\ waiting \subseteq Threads
  /\ started \in [send : BOOLEAN, recv : BOOLEAN]
  /\ ids \in [send : BOOLEAN, recv : BOOLEAN]
  /\ argsLive \in BOOLEAN /\ available \in BOOLEAN
  /\ sync \in {NoOne, "shut"}
  /\ sock \in {"open", "wrshut", "closed", "reused"}
  /\ remote \in {"up", "gone", "reset"}
  /\ shutdown \in [send : BOOLEAN, ok : BOOLEAN, cancel : BOOLEAN]

MsgTypeOK ==
  /\ packets \in Seq(Packet) /\ batch \in [Threads -> Seq(Packet)]
  /\ pktLock \in Threads \cup {NoOne} /\ sendLock \in Threads \cup {NoOne}
  /\ fd \in [Threads -> BOOLEAN]
  /\ nextPkt \in 1 .. MaxPackets + 1
  /\ queued \in Seq(Packet) /\ wire \in Seq(Packet) /\ stray \in Seq(Packet)
  /\ lost \in BOOLEAN /\ stopMark \in Nat

\* The types of the threads' labels, of the link's state and of Message's queue and batches.
TypeOK == PcTypeOK /\ StateTypeOK /\ MsgTypeOK

\* The batch that is being written, if any.
InFlight == IF sendLock = NoOne THEN <<>> ELSE batch[sendLock]

\* What reaches the connection is a prefix of what PeerNode::send was given, in
\* that order, and until a write fails every packet is written, being written or
\* still queued: the send thread, stop_CommunicationThreads and sendDirectly may all
\* be in Message::send at once, and only the order in which it takes its two locks
\* keeps their batches from overtaking each other.
FifoOrder ==
  /\ IsPrefix(wire, queued)
  /\ ~lost => queued = wire \o InFlight \o packets

\* What makes FifoOrder inductive: the holder of _send_sync is the thread that writes,
\* only it has a batch, and there is no send thread before it is created; a thread that
\* passed an invalid descriptor did so after the socket was closed; and after a loss
\* the connection takes no more packets.
LockInv ==
  /\ \A t \in Threads : pc[t] = "write" <=> sendLock = t
  /\ \A t \in Threads : t # sendLock => batch[t] = <<>>
  /\ pc["creat"] \in SendLabels \cup {"init", "createsend"} => pc["send"] = "idle"
FdInv == \A t \in Threads : (pc[t] \in {"ms", "write"} /\ ~fd[t]) => sock \in {"closed", "reused"}
LossInv == lost => sock # "open" \/ remote = "reset"
FifoInv == TypeOK /\ LockInv /\ FdInv /\ LossInv /\ FifoOrder

Fifo == INSTANCE FifoLink WITH broken <- lost

\* The link as its users see it (PeerNode::send, Message::send): an ordered channel that
\* delivers a growing prefix of what was sent until it breaks for good.
ImplementsFifoLink == Fifo!Spec

\* Once a batch is lost nothing more is written to the connection, so the peer
\* never sees a packet after a gap (Message::send drops the batch it failed to
\* write and the queue goes on filling up).
NoWriteAfterLoss == [][lost => wire' = wire]_vars

\* "guarantee that any user requests made before the network is deleted are taken
\* care of" (Network::shutdown_Network): when stop_CommunicationThreads has cleared
\* the send buffer of a live peer, all that was queued before is on the wire, also
\* the batch the send thread was writing at that moment.
ShutdownLosesNothing ==
  (/\ pc["shut"] \in {"shutwr", "wakesend", "drain", "close", "joinrecv"}
   /\ remote = "up" /\ pc["edt"] = "idle")
    => IsPrefix(SubSeq(queued, 1, stopMark), wire)

\* start_CommunicationThreads frees the arguments of the two threads once the
\* receive thread has reported: neither thread may still have to read them.
ArgsNotDangling == ~argsLive => pc["send"] # "start" /\ pc["recv"] # "start"

\* A packet queued while the link works is taken by the send thread, however the
\* signal of add_Packet and the wait of the send thread interleave.
QueueDrains == (started.send /\ packets # <<>>) ~> (packets = <<>> \/ ~available)

\* When a peer is declared failed its send thread ends: mark_Failed must wake it.  (Not
\* when stop_CommunicationThreads itself was ended in Message::send, holding _sync:
\* Message::send ends whichever thread sent PROT_SHUTDOWN.)
SendThreadEnds ==
  (~available /\ started.send) ~> (Ended("send") \/ pc["shut"] = "gone")

\* After its flush, shutdown_Network comes to an end when the peer answers EOF by
\* closing, also when the peer fails meanwhile: stop_CommunicationThreads and the two
\* joins wait for nobody who waits for _sync.
ShutdownCompletes == (pc["shut"] = "getids") ~> (pc["shut"] \in {"done", "gone"})

\* A flush with packets to wait for returns, although it tests the queue under another lock
\* than the one it waits with, unless the peer fails or the network is shut down.  (mark_Failed
\* does not signal MRN_FLUSH_COMPLETE, nor does a thread that empties the queue in
\* sendDirectly or stop_CommunicationThreads: a flush then waits for good.)
FlushReturns ==
  \A u \in Users :
    (pc[u] = "flush" /\ pc["creat"] = "done" /\ started.send /\ packets # <<>>)
      ~> (pc[u] = "idle" \/ ~available \/ remote # "up" \/ pc["shut"] # "idle")

\* Whatever the interleaving, what is queued on a working link is taken and a flush that
\* waits for it returns (Message::add_Packet, PeerNode::flush).
SendsComplete == QueueDrains /\ FlushReturns

\* Whoever notices the end of the link first, its threads and the shutdown that waits for
\* them come to an end (PeerNode::mark_Failed, stop_CommunicationThreads).
ThreadsEnd == SendThreadEnds /\ ShutdownCompletes
=============================================================================
