------------------------------ MODULE EventPipe ------------------------------
(***************************************************************************)
(* Notification by file descriptor: class EventPipe (src/src/Event.C), a   *)
(* pipe with the flag _has_data.  Threads that deliver packets to a stream *)
(* signal it, and an application that sleeps in select() on its read end   *)
(* clears it and drains the stream, as the programs of                     *)
(* Examples/IntegerAddition do.                                            *)
(*                                                                         *)
(* There are two such pipes.  The one of a Stream is signalled under the   *)
(* stream's _incoming_packet_buffer_sync and cleared by Stream::recv after *)
(* every packet.  The one of the Network (an EventMgr callback) is         *)
(* signalled under EventMgr::data_sync and cleared by the application,     *)
(* before it drains.  clear() is called without either of these locks, and *)
(* EventPipe::_sync is not held over read() and write().                   *)
(***************************************************************************)
EXTENDS Integers

CONSTANTS Producers,    \* threads that call add_IncomingPacket or close
          MaxBuffer     \* bound: packets in the buffer

ASSUME MaxBufferAssumption == MaxBuffer \in Nat
ASSUME ProducersAssumption == "app" \notin Producers /\ "none" \notin Producers

VARIABLES
  streamPipe, \* TRUE: the pipe of a Stream, FALSE: of the Network
  lateRequest,\* TRUE: packets may arrive before the pipe is created
  pc,         \* control location of every producer and of "app"
  buffer,     \* length of the stream's _incoming_packet_buffer
  sigLock,    \* owner of the lock under which signal() runs
  pipe,       \* the EventPipe has been created
  hasData,    \* _has_data
  bytes       \* bytes in the pipe

use == <<streamPipe, lateRequest>>
vars == <<use, pc, buffer, sigLock, pipe, hasData, bytes>>

NoOne == "none"
Threads == Producers \cup {"app"}
ProducerLabels == {"idle", "lock", "check", "write", "set", "unlock"}
AppLabels == {"request", "select", "get", "c_check", "c_read", "c_set"}

Goto(t, l) == pc' = [pc EXCEPT ![t] = l]
\* The lock of the packet buffer can be taken.
BufferFree == streamPipe => sigLock = NoOne

Init ==
  /\ streamPipe \in BOOLEAN /\ lateRequest \in BOOLEAN
  /\ pc = [t \in Threads |-> IF t # "app" THEN "idle"
                             ELSE IF lateRequest THEN "request" ELSE "select"]
  /\ buffer = 0 /\ sigLock = NoOne
  /\ pipe = ~lateRequest /\ hasData = FALSE /\ bytes = 0

-----------------------------------------------------------------------------
(* A producer: add_IncomingPacket, signal_BlockedReceivers / add_Event       *)

Push(p) ==
  /\ pc[p] = "idle" /\ BufferFree /\ buffer < MaxBuffer
  /\ buffer' = buffer + 1
  /\ Goto(p, "lock")
  /\ UNCHANGED <<use, sigLock, pipe, hasData, bytes>>

\* Stream::close signals as well, without a packet.
Close(p) ==
  /\ pc[p] = "idle" /\ streamPipe /\ BufferFree
  /\ Goto(p, "lock")
  /\ UNCHANGED <<use, buffer, sigLock, pipe, hasData, bytes>>

\* Faulty: signal() runs without the lock around it.
SignalLockNot(p) ==
  /\ pc[p] = "lock"
  /\ Goto(p, IF pipe THEN "check" ELSE "unlock")
  /\ UNCHANGED <<use, buffer, sigLock, pipe, hasData, bytes>>

SignalLock(p) ==
  /\ pc[p] = "lock" /\ sigLock = NoOne
  /\ sigLock' = p
  /\ Goto(p, IF pipe THEN "check" ELSE "unlock")
  /\ UNCHANGED <<use, buffer, pipe, hasData, bytes>>

SignalCheck(p) ==
  /\ pc[p] = "check"
  /\ Goto(p, IF hasData THEN "unlock" ELSE "write")
  /\ UNCHANGED <<use, buffer, sigLock, pipe, hasData, bytes>>

SignalWrite(p) ==
  /\ pc[p] = "write"
  /\ bytes' = bytes + 1
  /\ Goto(p, "set")
  /\ UNCHANGED <<use, buffer, sigLock, pipe, hasData>>

SignalSet(p) ==
  /\ pc[p] = "set"
  /\ hasData' = TRUE
  /\ Goto(p, "unlock")
  /\ UNCHANGED <<use, buffer, sigLock, pipe, bytes>>

SignalUnlock(p) ==
  /\ pc[p] = "unlock"
  /\ sigLock' = NoOne
  /\ Goto(p, "idle")
  /\ UNCHANGED <<use, buffer, pipe, hasData, bytes>>

SignalStep(p) ==
  SignalLock(p) \/ SignalCheck(p) \/ SignalWrite(p) \/ SignalSet(p) \/ SignalUnlock(p)

-----------------------------------------------------------------------------
(* The application                                                           *)

\* get_DataNotificationFd / get_EventNotificationFd
RequestFd ==
  /\ pc["app"] = "request"
  /\ pipe' = TRUE
  /\ Goto("app", "select")
  /\ UNCHANGED <<use, buffer, sigLock, hasData, bytes>>

\* select() returns when the pipe is readable.
Select ==
  /\ pc["app"] = "select" /\ bytes > 0
  /\ Goto("app", IF streamPipe THEN "get" ELSE "c_check")
  /\ UNCHANGED <<use, buffer, sigLock, pipe, hasData, bytes>>

\* recv( &tag, p, false ) until it returns 0.  The stream's pipe is cleared after
\* every packet.
Recv ==
  /\ pc["app"] = "get" /\ BufferFree
  /\ IF buffer > 0
       THEN buffer' = buffer - 1 /\ Goto("app", IF streamPipe THEN "c_check" ELSE "get")
       ELSE Goto("app", "select") /\ UNCHANGED buffer
  /\ UNCHANGED <<use, sigLock, pipe, hasData, bytes>>

ClearCheck ==
  /\ pc["app"] = "c_check"
  /\ Goto("app", IF hasData THEN "c_read" ELSE "get")
  /\ UNCHANGED <<use, buffer, sigLock, pipe, hasData, bytes>>

\* read() blocks while the pipe is empty.
ClearRead ==
  /\ pc["app"] = "c_read" /\ bytes > 0
  /\ bytes' = bytes - 1
  /\ Goto("app", "c_set")
  /\ UNCHANGED <<use, buffer, sigLock, pipe, hasData>>

\* Faulty: the application does not look for packets after a clear.
ClearSetAndSleep ==
  /\ pc["app"] = "c_set"
  /\ hasData' = FALSE
  /\ Goto("app", "select")
  /\ UNCHANGED <<use, buffer, sigLock, pipe, bytes>>

\* Faulty: _has_data stays set.
ClearSetNot ==
  /\ pc["app"] = "c_set"
  /\ Goto("app", "get")
  /\ UNCHANGED <<use, buffer, sigLock, pipe, hasData, bytes>>

ClearSet ==
  /\ pc["app"] = "c_set"
  /\ hasData' = FALSE
  /\ Goto("app", "get")
  /\ UNCHANGED <<use, buffer, sigLock, pipe, bytes>>

AppStep == RequestFd \/ Select \/ Recv \/ ClearCheck \/ ClearRead \/ ClearSet

Next == (\E p \in Producers : Push(p) \/ Close(p) \/ SignalStep(p)) \/ AppStep

Spec == Init /\ [][Next]_vars

\* Threads inside the library go on, and so does the application; the locks are fair.
Fairness == SF_vars(AppStep) /\ \A p \in Producers : SF_vars(SignalStep(p))
FairSpec == Spec /\ Fairness

-----------------------------------------------------------------------------
\* The types of the variables: threads at labels of their own, the counts natural numbers,
\* EventMgr::data_sync or the buffer's lock held by a producer or free.
TypeOK ==
  /\ streamPipe \in BOOLEAN /\ lateRequest \in BOOLEAN
  /\ pc \in [Threads -> ProducerLabels \cup AppLabels]
  /\ pc["app"] \in AppLabels /\ \A p \in Producers : pc[p] \in ProducerLabels
  /\ buffer \in Nat /\ bytes \in Nat
  /\ sigLock \in Producers \cup {NoOne}
  /\ pipe \in BOOLEAN /\ hasData \in BOOLEAN

\* If the pipe exists before the first packet, the application never sleeps on an empty pipe while a packet is in the buffer,
\* unless the thread that delivered it is still about to write to the pipe: skipping
\* the write because _has_data is set is right even while clear() is between its read
\* of the byte and its reset of the flag.
NotificationNotLost ==
  (~lateRequest /\ pc["app"] = "select" /\ bytes = 0 /\ buffer > 0)
    => \E p \in Producers : pc[p] \in {"lock", "check", "write"}

\* The flag agrees with the pipe, although it is set after the write and reset after the
\* read: the pipe never holds more than one byte, and the read() of clear() finds it.
PipeMatchesFlag ==
  /\ bytes <= 1
  /\ pc["app"] = "c_read" => bytes = 1

\* What makes them inductive: the holder of the lock is the thread that signals; the
\* pipe exists once the application has asked for it; a byte
\* is in the pipe exactly when the flag is set, except between the write and the
\* setting of the flag and between the read and its reset.
LockInv == \A p \in Producers : pc[p] \in {"check", "write", "set", "unlock"} <=> sigLock = p
PipeInv ==
  /\ IF pc["app"] = "request" THEN lateRequest ELSE pipe
  /\ \A p \in Producers : pc[p] \in {"write", "set"} => ~hasData
  /\ pc["app"] \in {"c_read", "c_set"} => hasData
  /\ hasData => bytes = (IF pc["app"] = "c_set" THEN 0 ELSE 1)
  /\ ~hasData => bytes = (IF \E p \in Producers : pc[p] = "set" THEN 1 ELSE 0)
NotifyInv == TypeOK /\ LockInv /\ PipeInv /\ NotificationNotLost

\* An application that asked for the descriptor before the first packet does not sleep
\* forever while there are packets.
DataNoticed == ~lateRequest => ((buffer > 0) ~> (pc["app"] # "select"))

=============================================================================
