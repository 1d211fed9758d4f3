----------------------------- MODULE StreamRecv -----------------------------
(***************************************************************************)
(* The receiving side of streams in a front-end or (threaded) back-end     *)
(* process: the incoming packet buffer of every Stream                     *)
(* (src/src/Stream.C), the map _streams with its round-robin iterator      *)
(* _stream_iter, and Network::recv (src/src/Network.C).                    *)
(*                                                                         *)
(* Threads: NetReceivers are application threads in Network::recv,         *)
(* StreamReceivers are application threads in the blocking Stream::recv of *)
(* the stream Reads[t], Producers are receive threads of peers, "edt" is   *)
(* the event detection thread closing the streams of a failed child, and   *)
(* "shut" the thread that runs signal_ShutDown and, later, close_Streams.  *)
(*                                                                         *)
(* _streams_sync is streamsLock where it is held across a step; a stream's *)
(* _incoming_packet_buffer_sync never is.  A packet is a count in buffer.  *)
(***************************************************************************)
EXTENDS Integers, FiniteSets, FiniteSetsExt

CONSTANTS Streams,          \* identifiers of user streams, ordered as in the map
          NetReceivers, StreamReceivers, Reads, Producers,
          MaxBuffer,        \* bound: packets in one buffer
          Processes         \* the processes looked at: front-end or not, its threads, its
                            \* streams, whether its application keeps calling recv

ASSUME StreamsAssumption == Streams \subseteq Nat \ {0} /\ IsFiniteSet(Streams)
ASSUME ReadsAssumption == Reads \in [StreamReceivers -> Streams]
ASSUME MaxBufferAssumption == MaxBuffer \in Nat \ {0}

NoOne == "none"
Threads == NetReceivers \cup StreamReceivers \cup Producers \cup {"edt", "shut"}

\* A thread has one task.
ASSUME ThreadsAssumption ==
  /\ NetReceivers \cap StreamReceivers = {} /\ NetReceivers \cap Producers = {}
  /\ StreamReceivers \cap Producers = {}
  /\ {"edt", "shut", NoOne} \cap (NetReceivers \cup StreamReceivers \cup Producers) = {}

ASSUME ProcessesAssumption ==
  Processes \subseteq
    [fe : BOOLEAN, threads : SUBSET Threads, streams : SUBSET Streams, serving : BOOLEAN]

\* An application receives in one thread (_stream_iter and the buffers are looked at without
\* a lock between two steps), and a back-end has one parent.
ASSUME OneReceiverAssumption ==
  \A p \in Processes :
    /\ \A t, u \in p.threads \cap (NetReceivers \cup StreamReceivers) : t = u
    /\ ~p.fe => \A t, u \in p.threads \cap Producers : t = u

VARIABLES
  process,        \* the process this is
  pc, waiting,    \* control location; threads blocked in WaitOnCondition
  target,         \* the stream a thread works on (0: none)
  startIter,      \* start_iter of a thread in Network::recv
  scan,           \* the streams a loop over _streams has still to visit
  mode,           \* Network::recv: "block", "poll", "polled" (checked_network)
  streamsLock,    \* owner of _streams_sync
  streams,        \* keys of _streams
  streamIter,     \* _stream_iter: the key it points at, 0 before the first stream
  created,        \* streams that exist or existed
  buffer,         \* length of _incoming_packet_buffer
  closed,         \* _was_closed
  shutDown,       \* _was_shutdown
  \* history variables
  owed,           \* packets in the buffer that arrived before the stream was closed
  last            \* the stream a packet was last taken from

callVars == <<target, startIter, scan, mode>>
mapVars  == <<streams, streamIter, created>>
strmVars == <<buffer, closed, owed, last>>
env      == <<shutDown, process>>
vars == <<pc, waiting, callVars, streamsLock, mapVars, strmVars, env>>

NetLabels == {"idle", "have", "start", "look", "advance", "advfound", "deliver", "netrecv",
              "lock", "scandata", "shutcheck", "scanclosed", "wait", "delclosed",
              "c_set", "c_signal", "d_del", "failed"}
StreamLabels == {"idle", "sget", "sclosed", "sblock", "scheck", "sget2", "failed"}
ProducerLabels == {"idle", "push", "sigstream", "signet", "c_set", "c_signal"}
CloserLabels == {"idle", "s_signal", "s_close", "c_set", "c_signal", "done"}

At(t, l) == pc[t] = l /\ t \notin waiting
Idle(t) == t \in process.threads /\ At(t, "idle")
IsFrontEnd == process.fe
Goto(t, l) == pc' = [pc EXCEPT ![t] = l]
LockFree == streamsLock = NoOne
Acquire(t) == LockFree /\ streamsLock' = t
Release(t) == streamsLock' = NoOne

\* SignalCondition: one of the threads that wait, if any, goes on.
Signal(W) ==
  \/ W = {} /\ UNCHANGED waiting
  \/ \E w \in W : waiting' = waiting \ {w}
WaitNonEmpty == {t \in waiting : pc[t] = "wait"}
WaitPacket(s) == {t \in waiting : pc[t] = "sblock" /\ Reads[t] = s}

\* Faulty: iterator++ without the wrap.
AfterNoWrap(i, S) == IF \E s \in S : s > i THEN Min({s \in S : s > i}) ELSE i + 1

\* iterator++, with a wrap to begin() at the end.
After(i, S) ==
  LET above == {s \in S : s > i}
  IN  CASE above # {} -> Min(above)
        [] S # {}     -> Min(S)
        [] OTHER      -> 0

Init ==
  /\ process \in Processes
  /\ pc = [t \in Threads |-> "idle"] /\ waiting = {}
  /\ target = [t \in Threads |-> 0] /\ startIter = [t \in Threads |-> 0]
  /\ scan = [t \in Threads |-> {}] /\ mode = [t \in Threads |-> "block"]
  /\ streamsLock = NoOne
  /\ streams = {} /\ streamIter = 0 /\ created = {}
  /\ buffer = [s \in Streams |-> 0] /\ closed = [s \in Streams |-> FALSE]
  /\ shutDown = FALSE
  /\ owed = [s \in Streams |-> 0] /\ last = 0

-----------------------------------------------------------------------------
(* Network::new_Stream, Network::delete_Stream                               *)

\* The front-end's application creates a stream, or PROT_NEW_STREAM arrives.
NewStream(t) ==
  /\ t \in (IF IsFrontEnd THEN NetReceivers ELSE Producers)
  /\ Idle(t) /\ LockFree
  /\ \E s \in process.streams \ created :
       /\ \A c \in created : c < s
       /\ streams' = streams \cup {s}
       /\ streamIter' = IF streams = {} THEN s ELSE streamIter
       /\ created' = created \cup {s}
  /\ UNCHANGED <<pc, waiting, callVars, streamsLock, strmVars, env>>

\* Faulty: _stream_iter is left pointing at the erased entry.
EraseStreamOnly(s) ==
  /\ streams' = streams \ {s}
  /\ UNCHANGED <<streamIter, created>>

\* "if we are about to delete _stream_iter, set it to next elem. (w/wrap)"
EraseStream(s) ==
  /\ streams' = streams \ {s}
  /\ streamIter' = IF s \in streams /\ s = streamIter
                     THEN After(streamIter, streams \ {s}) ELSE streamIter
  /\ UNCHANGED created

-----------------------------------------------------------------------------
(* Stream::get_IncomingPacket, add_IncomingPacket, close                     *)

GetIncomingPacket(s) ==
  /\ buffer[s] > 0
  /\ buffer' = [buffer EXCEPT ![s] = @ - 1]
  /\ owed' = [owed EXCEPT ![s] = IF @ > 0 THEN @ - 1 ELSE 0]
  /\ last' = s
  /\ UNCHANGED closed

\* proc_DataFromChildren / proc_DataFromParent: get_Stream, which must find it.
Lookup(t) ==
  /\ Idle(t) /\ t \in Producers /\ LockFree
  /\ \E s \in streams : target' = [target EXCEPT ![t] = s]
  /\ Goto(t, "push")
  /\ UNCHANGED <<waiting, startIter, scan, mode, streamsLock, mapVars, strmVars, env>>

Push(t) ==
  /\ At(t, "push") /\ buffer[target[t]] < MaxBuffer
  /\ buffer' = [buffer EXCEPT ![target[t]] = @ + 1]
  /\ Goto(t, "sigstream")
  /\ UNCHANGED <<waiting, callVars, streamsLock, mapVars, closed, owed, last, env>>

\* signal_BlockedReceivers
SignalStream(t) ==
  /\ At(t, "sigstream")
  /\ Signal(WaitPacket(target[t]))
  /\ Goto(t, "signet")
  /\ UNCHANGED <<callVars, streamsLock, mapVars, strmVars, env>>

\* Network::signal_NonEmptyStream
SignalNonEmptyStream(t) ==
  /\ At(t, "signet") /\ LockFree
  /\ Signal(WaitNonEmpty)
  /\ Goto(t, "idle")
  /\ UNCHANGED <<callVars, streamsLock, mapVars, strmVars, env>>

\* Faulty: the receivers are notified before the packet is in the buffer.
AddIncomingPacketLate(t) ==
  \/ At(t, "push") /\ Goto(t, "signet")
     /\ UNCHANGED <<waiting, callVars, streamsLock, mapVars, strmVars, env>>
  \/ At(t, "signet") /\ LockFree /\ Signal(WaitNonEmpty) /\ Goto(t, "sigstream")
     /\ UNCHANGED <<callVars, streamsLock, mapVars, strmVars, env>>
  \/ At(t, "sigstream") /\ buffer[target[t]] < MaxBuffer
     /\ buffer' = [buffer EXCEPT ![target[t]] = @ + 1] /\ Signal(WaitPacket(target[t]))
     /\ Goto(t, "idle")
     /\ UNCHANGED <<callVars, streamsLock, mapVars, closed, owed, last, env>>

AddIncomingPacket(t) == Push(t) \/ SignalStream(t) \/ SignalNonEmptyStream(t)

\* Faulty: closing a stream also takes it out of _streams.
CloseSetErase(t) ==
  /\ At(t, "c_set") /\ target[t] # 0
  /\ closed' = [closed EXCEPT ![target[t]] = TRUE]
  /\ EraseStream(target[t])
  /\ Goto(t, "c_signal")
  /\ UNCHANGED <<waiting, callVars, streamsLock, buffer, owed, last, env>>

\* Stream::close of target[t]: set the flag ...
CloseSet(t) ==
  /\ At(t, "c_set") /\ target[t] # 0
  /\ closed' = [closed EXCEPT ![target[t]] = TRUE]
  /\ owed' = [owed EXCEPT ![target[t]] = IF closed[target[t]] THEN @ ELSE buffer[target[t]]]
  /\ Goto(t, "c_signal")
  /\ UNCHANGED <<waiting, callVars, streamsLock, mapVars, buffer, last, env>>

\* Faulty: close does not notify anybody.
CloseSignalNobody(t) ==
  /\ At(t, "c_signal") /\ scan[t] = {}
  /\ Goto(t, IF t \in Producers THEN "idle" ELSE "done")
  /\ streamsLock' = IF t = streamsLock THEN NoOne ELSE streamsLock
  /\ UNCHANGED <<waiting, callVars, mapVars, strmVars, env>>

\* ... then signal_BlockedReceivers; the loops of remove_Node and close_Streams
\* continue with the next stream.
CloseSignal(t) ==
  /\ At(t, "c_signal")
  /\ Signal(WaitPacket(target[t]))
  /\ target' = [target EXCEPT ![t] = CASE scan[t] # {}       -> Min(scan[t])
                                       [] t \in NetReceivers -> @
                                       [] OTHER              -> 0]
  /\ scan' = [scan EXCEPT ![t] = @ \ {target'[t]}]
  /\ Goto(t, CASE scan[t] # {}        -> "c_set"
               [] t \in NetReceivers  -> "d_del"
               [] t \in Producers     -> "idle"
               [] OTHER               -> "done")
  /\ IF t = streamsLock /\ scan[t] = {} THEN Release(t) ELSE UNCHANGED streamsLock
  /\ UNCHANGED <<startIter, mode, mapVars, strmVars, env>>

\* BackEndNode::proc_deleteStream closes a user stream.
BackEndDeleteStream(t) ==
  /\ Idle(t) /\ t \in Producers /\ ~IsFrontEnd /\ LockFree
  /\ \E s \in streams : ~closed[s] /\ target' = [target EXCEPT ![t] = s]
  /\ Goto(t, "c_set")
  /\ UNCHANGED <<waiting, startIter, scan, mode, streamsLock, mapVars, strmVars, env>>

\* Start a loop that closes the streams of S with _streams_sync held.
CloseLoop(t, S) ==
  /\ S # {}
  /\ Acquire(t)
  /\ target' = [target EXCEPT ![t] = Min(S)]
  /\ scan' = [scan EXCEPT ![t] = S \ {Min(S)}]
  /\ Goto(t, "c_set")

\* Network::remove_Node on a front-end without failure recovery: the open streams
\* that the failed child served are closed.
EdtRemoveNode ==
  /\ Idle("edt") /\ IsFrontEnd
  /\ \E S \in SUBSET {s \in streams : ~closed[s]} : CloseLoop("edt", S)
  /\ UNCHANGED <<waiting, startIter, mode, mapVars, strmVars, env>>

-----------------------------------------------------------------------------
(* Network::recv( otag, opacket, ostream, iblocking )                        *)

NetRecvCall(t) ==
  /\ Idle(t) /\ LockFree
  /\ IsFrontEnd => streams # {}              \* "bad for FE": returns -1
  /\ \E m \in {"block", "poll"} : mode' = [mode EXCEPT ![t] = m]
  /\ Goto(t, "have")
  /\ UNCHANGED <<waiting, target, startIter, scan, streamsLock, mapVars, strmVars, env>>

\* get_packet_from_stream_label: have_Streams
NetRecvHave(t) ==
  /\ At(t, "have") /\ LockFree
  /\ Goto(t, IF streams # {} THEN "start" ELSE "netrecv")
  /\ UNCHANGED <<waiting, callVars, streamsLock, mapVars, strmVars, env>>

NetRecvStart(t) ==
  /\ At(t, "start")
  /\ startIter' = [startIter EXCEPT ![t] = streamIter]
  /\ Goto(t, "look")
  /\ UNCHANGED <<waiting, target, scan, mode, streamsLock, mapVars, strmVars, env>>

\* _stream_iter->second->get_IncomingPacket(), without _streams_sync.
NetRecvLook(t) ==
  /\ At(t, "look") /\ streamIter # 0
  /\ target' = [target EXCEPT ![t] = streamIter]
  /\ \/ GetIncomingPacket(streamIter) /\ Goto(t, "advfound")
     \/ buffer[streamIter] = 0 /\ Goto(t, "advance") /\ UNCHANGED strmVars
  /\ UNCHANGED <<waiting, startIter, scan, mode, streamsLock, mapVars, env>>

\* Faulty: the iterator stays where a packet was found.
NetRecvAdvanceNot(t) ==
  /\ pc[t] \in {"advance", "advfound"} /\ LockFree
  /\ streamIter' = IF pc[t] = "advfound" THEN streamIter ELSE After(streamIter, streams)
  /\ Goto(t, CASE pc[t] = "advfound"          -> "deliver"
               [] streamIter' # startIter[t]  -> "look"
               [] OTHER                       -> "netrecv")
  /\ UNCHANGED <<waiting, callVars, streamsLock, streams, created, strmVars, env>>

NetRecvAdvance(t) ==
  /\ pc[t] \in {"advance", "advfound"} /\ LockFree
  /\ streamIter' = After(streamIter, streams)
  /\ Goto(t, CASE pc[t] = "advfound"          -> "deliver"
               [] streamIter' # startIter[t]  -> "look"
               [] OTHER                       -> "netrecv")
  /\ UNCHANGED <<waiting, callVars, streamsLock, streams, created, strmVars, env>>

\* *ostream = get_Stream( cur_packet->get_StreamId() ); assert( *ostream )
NetRecvDeliver(t) ==
  /\ At(t, "deliver") /\ LockFree
  /\ Goto(t, IF target[t] \in streams THEN "idle" ELSE "failed")
  /\ target' = [target EXCEPT ![t] = 0]
  /\ UNCHANGED <<waiting, startIter, scan, mode, streamsLock, mapVars, strmVars, env>>

\* Network::recv( bool ): on a back-end a call that is not blocking waits as well when
\* the socket to the parent is readable (has_PacketsFromParent, read by another thread).
NetRecvBool(t) ==
  /\ At(t, "netrecv")
  /\ \/ /\ shutDown \/ mode[t] # "block"
        /\ Goto(t, "idle")
        /\ UNCHANGED mode
     \/ /\ ~shutDown
        /\ mode[t] = "block" \/ (mode[t] = "poll" /\ ~IsFrontEnd)
        /\ Goto(t, "lock")
        /\ mode' = [mode EXCEPT ![t] = IF @ = "poll" THEN "polled" ELSE @]
  /\ UNCHANGED <<waiting, target, startIter, scan, streamsLock, mapVars, strmVars, env>>

\* Faulty: closed streams are looked for before data.
WaitForLockClosedFirst(t) ==
  /\ pc[t] \in {"lock", "wait"} /\ t \notin waiting
  /\ Acquire(t)
  /\ scan' = [scan EXCEPT ![t] = streams]
  /\ Goto(t, "scanclosed")
  /\ UNCHANGED <<waiting, target, startIter, mode, mapVars, strmVars, env>>

\* waitfor_NonEmptyStream: lock _streams_sync (again, after a wait) and look for data.
WaitForLock(t) ==
  /\ pc[t] \in {"lock", "wait"} /\ t \notin waiting
  /\ Acquire(t)
  /\ scan' = [scan EXCEPT ![t] = streams]
  /\ Goto(t, "scandata")
  /\ UNCHANGED <<waiting, target, startIter, mode, mapVars, strmVars, env>>

ScanData(t) ==
  /\ At(t, "scandata")
  /\ IF scan[t] = {}
       THEN Goto(t, "shutcheck") /\ UNCHANGED <<scan, streamsLock>>
       ELSE LET s == Min(scan[t])
            IN  IF buffer[s] > 0
                  THEN Goto(t, "have") /\ Release(t) /\ scan' = [scan EXCEPT ![t] = {}]
                  ELSE scan' = [scan EXCEPT ![t] = @ \ {s}] /\ UNCHANGED <<pc, streamsLock>>
  /\ UNCHANGED <<waiting, target, startIter, mode, mapVars, strmVars, env>>

ShutCheck(t) ==
  /\ At(t, "shutcheck")
  /\ IF shutDown
       THEN Goto(t, "idle") /\ Release(t) /\ UNCHANGED scan
       ELSE Goto(t, "scanclosed") /\ scan' = [scan EXCEPT ![t] = streams]
                                  /\ UNCHANGED streamsLock
  /\ UNCHANGED <<waiting, target, startIter, mode, mapVars, strmVars, env>>

ScanClosed(t) ==
  /\ At(t, "scanclosed")
  /\ IF scan[t] = {}
       THEN /\ Goto(t, "wait") /\ waiting' = waiting \cup {t} /\ Release(t)
            /\ UNCHANGED <<target, scan>>
       ELSE LET s == Min(scan[t])
            IN  IF closed[s]
                  THEN /\ Goto(t, "delclosed") /\ Release(t)
                       /\ target' = [target EXCEPT ![t] = s]
                       /\ scan' = [scan EXCEPT ![t] = {}]
                       /\ UNCHANGED waiting
                  ELSE /\ scan' = [scan EXCEPT ![t] = @ \ {s}]
                       /\ UNCHANGED <<pc, waiting, target, streamsLock>>
  /\ UNCHANGED <<startIter, mode, mapVars, strmVars, env>>

\* A closed stream without data: delete_Stream, and recv returns 0.
DeleteClosed(t) ==
  /\ At(t, "delclosed") /\ LockFree
  /\ EraseStream(target[t])
  /\ target' = [target EXCEPT ![t] = 0]
  /\ Goto(t, "idle")
  /\ UNCHANGED <<waiting, startIter, scan, mode, streamsLock, strmVars, env>>

WaitForNonEmptyStream(t) ==
  WaitForLock(t) \/ ScanData(t) \/ ShutCheck(t) \/ ScanClosed(t) \/ DeleteClosed(t)

\* Stream::~Stream of a stream that no other thread uses: close, then delete_Stream.
DestroyStream(t) ==
  /\ Idle(t) /\ t \in NetReceivers
  /\ \E s \in streams :
       /\ \A u \in Threads \ {t} : target[u] # s /\ s \notin scan[u]
       /\ \A r \in StreamReceivers : Reads[r] # s
       /\ target' = [target EXCEPT ![t] = s]
  /\ Goto(t, "c_set")
  /\ UNCHANGED <<waiting, startIter, scan, mode, streamsLock, mapVars, strmVars, env>>

DestroyErase(t) ==
  /\ At(t, "d_del") /\ LockFree
  /\ EraseStream(target[t])
  /\ target' = [target EXCEPT ![t] = 0]
  /\ Goto(t, "idle")
  /\ UNCHANGED <<waiting, startIter, scan, mode, streamsLock, strmVars, env>>
-----------------------------------------------------------------------------
(* Stream::recv( otag, opacket, true ) of stream Reads[t]                    *)

StreamRecvCall(t) ==
  /\ Idle(t) /\ Reads[t] \in created
  /\ Goto(t, "sget")
  /\ UNCHANGED <<waiting, callVars, streamsLock, mapVars, strmVars, env>>

\* The first get_IncomingPacket, and the one after block_ForIncomingPacket that is
\* followed by assert( cur_packet != Packet::NullPacket ).
StreamRecvGet(t) ==
  /\ pc[t] \in {"sget", "sget2"}
  /\ \/ GetIncomingPacket(Reads[t]) /\ Goto(t, "idle")
     \/ /\ buffer[Reads[t]] = 0 /\ UNCHANGED strmVars
        /\ Goto(t, IF pc[t] = "sget" THEN "sclosed" ELSE "failed")
  /\ UNCHANGED <<waiting, callVars, streamsLock, mapVars, env>>

\* is_Closed, before and after the wait.
StreamRecvClosed(t) ==
  /\ pc[t] \in {"sclosed", "scheck"}
  /\ Goto(t, CASE closed[Reads[t]]   -> "idle"
               [] pc[t] = "sclosed"  -> "sblock"
               [] OTHER              -> "sget2")
  /\ UNCHANGED <<waiting, callVars, streamsLock, mapVars, strmVars, env>>

\* block_ForIncomingPacket
BlockForIncomingPacket(t) ==
  /\ At(t, "sblock")
  /\ IF buffer[Reads[t]] = 0 /\ ~closed[Reads[t]]
       THEN waiting' = waiting \cup {t} /\ UNCHANGED pc
       ELSE Goto(t, "scheck") /\ UNCHANGED waiting
  /\ UNCHANGED <<callVars, streamsLock, mapVars, strmVars, env>>

-----------------------------------------------------------------------------
(* Network::signal_ShutDown, close_Streams                                   *)

ShutDownSet ==
  /\ Idle("shut")
  /\ shutDown' = TRUE
  /\ Goto("shut", "s_signal")
  /\ UNCHANGED <<process, waiting, callVars, streamsLock, mapVars, strmVars>>

\* Faulty: only waitfor_ShutDown is notified.
ShutDownSignalNobody ==
  /\ At("shut", "s_signal") /\ LockFree
  /\ Goto("shut", "s_close")
  /\ UNCHANGED <<waiting, callVars, streamsLock, mapVars, strmVars, env>>

\* "notify any blocking recv() calls"
ShutDownSignal ==
  /\ At("shut", "s_signal") /\ LockFree
  /\ Signal(WaitNonEmpty)
  /\ Goto("shut", "s_close")
  /\ UNCHANGED <<callVars, streamsLock, mapVars, strmVars, env>>

CloseStreams ==
  /\ At("shut", "s_close")
  /\ \/ CloseLoop("shut", streams)
     \/ streams = {} /\ LockFree /\ Goto("shut", "done")
        /\ UNCHANGED <<target, scan, streamsLock>>
  /\ UNCHANGED <<waiting, startIter, mode, mapVars, strmVars, env>>

-----------------------------------------------------------------------------
CloseStep(t) == CloseSet(t) \/ CloseSignal(t)

\* What a thread does once it has entered a call.
NetRecvStep(t) ==
  \/ NetRecvHave(t) \/ NetRecvStart(t) \/ NetRecvLook(t) \/ NetRecvAdvance(t)
  \/ NetRecvDeliver(t) \/ NetRecvBool(t) \/ WaitForNonEmptyStream(t)
  \/ CloseStep(t) \/ DestroyErase(t)
StreamRecvStep(t) == StreamRecvGet(t) \/ StreamRecvClosed(t) \/ BlockForIncomingPacket(t)
ProducerStep(t) == AddIncomingPacket(t) \/ CloseStep(t)
ShutStep == ShutDownSignal \/ CloseStreams \/ CloseStep("shut")

Next ==
  \/ \E t \in NetReceivers :
       NewStream(t) \/ NetRecvCall(t) \/ DestroyStream(t) \/ NetRecvStep(t)
  \/ \E t \in StreamReceivers : StreamRecvCall(t) \/ StreamRecvStep(t)
  \/ \E t \in Producers :
       NewStream(t) \/ Lookup(t) \/ BackEndDeleteStream(t) \/ ProducerStep(t)
  \/ EdtRemoveNode \/ CloseStep("edt")
  \/ ShutDownSet \/ ShutStep

Spec == Init /\ [][Next]_vars

\* A thread inside the library goes on when it can; no call has to be made, no packet
\* has to arrive, unless the application is one that keeps calling Network::recv.
\* (A thread waiting for _streams_sync gets it: strong.)
Fairness ==
  /\ \A t \in NetReceivers : SF_vars(NetRecvStep(t))
  /\ \A t \in StreamReceivers : WF_vars(StreamRecvStep(t))
  /\ \A t \in Producers : SF_vars(ProducerStep(t))
  /\ SF_vars(CloseStep("edt")) /\ SF_vars(ShutStep)
  /\ \A t \in NetReceivers : SF_vars(process.serving /\ NetRecvCall(t))

FairSpec == Spec /\ Fairness

-----------------------------------------------------------------------------
\* The types of the variables; the iterator names a stream number or the end of _streams,
\* and a buffer is never over its bound or below zero.
TypeOK ==
  /\ process \in Processes
  /\ \A t \in NetReceivers : pc[t] \in NetLabels
  /\ \A t \in StreamReceivers : pc[t] \in StreamLabels
  /\ \A t \in Producers : pc[t] \in ProducerLabels
  /\ pc["edt"] \in CloserLabels /\ pc["shut"] \in CloserLabels
  /\ DOMAIN pc = Threads /\ waiting \subseteq Threads
  /\ target \in [Threads -> Streams \cup {0}] /\ startIter \in [Threads -> Streams \cup {0}]
  /\ scan \in [Threads -> SUBSET Streams]
  /\ mode \in [Threads -> {"block", "poll", "polled"}]
  /\ streamsLock \in Threads \cup {NoOne}
  /\ streams \subseteq created /\ created \subseteq Streams
  /\ streamIter \in Streams \cup {0}
  /\ buffer \in [Streams -> 0 .. MaxBuffer] /\ closed \in [Streams -> BOOLEAN]
  /\ shutDown \in BOOLEAN
  /\ owed \in [Streams -> 0 .. MaxBuffer] /\ last \in Streams \cup {0}

\* Network::recv dereferences and increments _stream_iter without looking whether it
\* is valid: with one application thread it always points at an entry of _streams, by
\* what new_Stream and delete_Stream do to it.
IteratorValid ==
  /\ streams # {} => streamIter \in streams
  /\ \A t \in NetReceivers :
       pc[t] \in {"start", "look", "advance", "advfound"} => streams # {}

\* The assertions of Network::recv ("assert(*ostream)") and Stream::recv ("should have
\* a packet now") hold.
AssertionsHold == \A t \in Threads : pc[t] # "failed"

\* A closed stream is removed by waitfor_NonEmptyStream only when every packet that
\* arrived before it was closed has been received.
NoDropOnClose ==
  \A t \in NetReceivers : pc[t] = "delclosed" => owed[target[t]] = 0

\* A thread blocked in Network::recv goes on when a stream has a packet.
NetRecvWakes ==
  \A t \in NetReceivers :
    (pc[t] = "wait" /\ \E s \in streams : buffer[s] > 0) ~> (pc[t] # "wait")

\* A thread blocked in Network::recv goes on at shutdown (signal_ShutDown: "notify any
\* blocking recv() calls").
ShutDownWakes == \A t \in NetReceivers : (pc[t] = "wait" /\ shutDown) ~> (pc[t] # "wait")

\* A thread blocked in Stream::recv goes on when its stream has a packet or is closed.
StreamRecvWakes ==
  \A t \in StreamReceivers :
    (pc[t] = "sblock" /\ (buffer[Reads[t]] > 0 \/ closed[Reads[t]])) ~> (pc[t] # "sblock")

\* The round-robin of Network::recv starves no stream of an application that keeps
\* calling it, however many packets the others get.
NoStarvation ==
  process.serving => \A s \in Streams : []<>(buffer[s] = 0 \/ last = s \/ s \notin streams)

\* Receiving never leaves what the code relies on without a lock: the iterator of Network::recv
\* is valid whenever it is followed, and the packets the assertions expect are there.
RecvSafe == TypeOK /\ IteratorValid /\ AssertionsHold

\* No wake-up is lost between the look at the buffers and the wait, whether a packet, a close
\* or the shutdown comes (waitfor_NonEmptyStream, Stream::recv, signal_ShutDown).
ReceiversWake == NetRecvWakes /\ ShutDownWakes /\ StreamRecvWakes
=============================================================================
