---------------------------- MODULE LightNetwork ----------------------------
(***************************************************************************)
(* The threads of an application inside the thread-safe build of the       *)
(* lightweight back-end library: receiving on any stream or on one,        *)
(* sending, waiting for the shutdown, and recovering from the parent's     *)
(* failure (src/src/lightweight/Network.c, Stream.c, PeerNode.c,           *)
(* ChildNode.c, BackEndNode.c).  There is no thread of the library's own:  *)
(* one application thread at a time listens on the socket for all.         *)
(*                                                                         *)
(* The monitors NET_SYNC, RECV_SYNC and PARENT_SYNC are recursive          *)
(* (xplat/src/lightweight/Monitor-pthread.c), and waiting on a condition   *)
(* gives back one level only.  Every step is what a thread does between    *)
(* two acquisitions of a monitor, or between unsynchronized accesses.      *)
(* Peers 1, 2, ... are the parents the back-end is connected to in turn.   *)
(***************************************************************************)
EXTENDS Naturals, Sequences, FiniteSets, SequencesExt

CONSTANTS Threads,      \* threads of the application
          NumStreams,   \* streams the back-end comes to have, in the order of streams->keys
          NumPeers,     \* processes that can be its parent
          Script,       \* messages that come down the tree: sequences of packets <<stream, number>>,
                        \* or <<0, c>> for a control packet
          Calls,        \* thread -> [op, blk, s]: calls it makes
          MaxCrashes    \* bound: parents that fail

NoThread == 0
ASSUME LightNetworkAssumption ==
  /\ NoThread \notin Threads /\ NumStreams \in Nat \ {0} /\ NumPeers \in Nat \ {0}
  /\ \A i \in 1..Len(Script) : \A k \in 1..Len(Script[i]) : Script[i][k][1] \in 0..NumStreams

Peers == 1..NumPeers
LStreams == 1..NumStreams
NoPeer == 0
NoPacket == <<0, 0>>
PROT_EDT_REMOTE_SHUTDOWN == <<0, 1>>
PROT_NEW_STREAM == <<0, 2>>
PROT_ENABLE_RECOVERY == <<0, 3>>
PROT_DISABLE_RECOVERY == <<0, 4>>

VARIABLES
  lock,        \* monitor -> [by, n]: its owner and how often it has locked it
  listening,   \* thread_listening
  recovering,  \* thread_recovering
  parent,      \* net->parent
  recover,     \* recover_from_failures
  closed,      \* _was_shutdown
  iter,        \* stream_iter, an index into the keys
  nstr,        \* streams->size
  bufs,        \* stream -> incoming_packet_buffer
  thr,         \* thread -> where it is and its local variables
  script,      \* messages the parent has not sent yet
  inbox,       \* peer -> messages on its data connection
  gone,        \* peers that have failed or left
  event,       \* peer -> what its event connection holds: "none", "shutdown", or no connection
  ended,       \* the process: "no", "assert", "null", "exit"
  given,       \* stream -> packets handed to the application (history)
  requeued,    \* a packet was taken from a buffer and processed once more (history)
  castUnheld,  \* THREAD_LISTENING was broadcast while another thread held RECV_SYNC (history)
  left         \* peers given up that had not failed (history)
recvVars == <<listening, iter, nstr, bufs, given, requeued, castUnheld>>
peerVars == <<script, inbox, gone, event>>
netVars == <<lock, recovering, parent, recover, closed, thr, ended, left, recvVars, peerVars>>

Free(m, t) == lock[m].by \in {NoThread, t}
Locked(l, m, t) == [l EXCEPT ![m] = [by |-> t, n |-> @.n + 1]]
Unlocked(l, m) == [l EXCEPT ![m] = IF @.n = 1 THEN [by |-> NoThread, n |-> 0] ELSE [@ EXCEPT !.n = @ - 1]]

Idle == [pc |-> "idle", op |-> "none", blk |-> FALSE, s |-> 0, start |-> 0, orig |-> NoPeer,
         peer |-> NoPeer, ready |-> NoPacket, list |-> <<>>, listened |-> FALSE, checked |-> FALSE]
At(t, l) == ended = "no" /\ thr[t].pc = l
Go(t, l) == thr' = [thr EXCEPT ![t].pc = l]
Ends(how) == ended' = how /\ UNCHANGED thr

NetInit ==
  /\ lock = [m \in {"NET", "RECV", "PARENT"} |-> [by |-> NoThread, n |-> 0]]
  /\ listening = 0 /\ recovering = 0 /\ parent = 1 /\ recover = TRUE /\ closed = FALSE
  /\ iter = 0 /\ nstr = 1 /\ bufs = [s \in LStreams |-> <<>>] /\ thr = [t \in Threads |-> Idle]
  /\ script = Script /\ inbox = [p \in Peers |-> <<>>] /\ gone = {} /\ event = [p \in Peers |-> "none"]
  /\ ended = "no" /\ given = [s \in LStreams |-> <<>>]
  /\ requeued = FALSE /\ castUnheld = FALSE /\ left = {}

-----------------------------------------------------------------------------
\* The application's calls.

\* What a thread does when Network_recv or Stream_recv returns: waitfor_ShutDown goes on
\* until the shutdown, holding NET_SYNC all the time, unless the receive gave nothing.
Returned(r, got) ==
  IF r.op = "wait" /\ got /\ ~closed THEN [Idle EXCEPT !.op = "wait", !.blk = TRUE, !.pc = "start"] ELSE Idle
ReturnLock(l, r, got) == IF r.op = "wait" /\ ~(got /\ ~closed) THEN Unlocked(l, "NET") ELSE l

\* How Network_recv, Network_recv_nonblock and Stream_recv go on after recv_internal.
AfterInternal(r, ret) ==
  CASE r.op = "stream" /\ (ret = 1 \/ (ret = 0 /\ r.blk)) -> [Idle EXCEPT !.op = r.op, !.blk = r.blk, !.s = r.s, !.pc = "sloop"]
    [] r.op # "stream" /\ ret = 1 -> [Idle EXCEPT !.op = r.op, !.blk = r.blk, !.pc = "start"]
    [] OTHER -> Returned(r, FALSE)
AfterLock(l, r, ret) == IF r.op # "stream" /\ ret # 1 THEN ReturnLock(l, r, FALSE) ELSE l

Call(t) ==
  /\ At(t, "idle")
  /\ \E c \in Calls[t] :
       /\ c.op = "wait" => Free("NET", t) /\ ~closed
       /\ lock' = IF c.op = "wait" THEN Locked(lock, "NET", t) ELSE lock
       /\ thr' = [thr EXCEPT ![t] = [Idle EXCEPT !.op = c.op, !.blk = c.blk, !.s = c.s,
                                       !.pc = CASE c.op = "send" -> "send" [] c.op = "stream" -> "check" [] OTHER -> "start"]]
  /\ UNCHANGED <<recovering, parent, recover, closed, ended, left, recvVars, peerVars>>

\* recv_stream_check reads stream_iter before it locks NET_SYNC.
StreamCheckStart(t) ==
  /\ At(t, "start")
  /\ thr' = [thr EXCEPT ![t].start = iter, ![t].pc = "check"]
  /\ UNCHANGED <<lock, recovering, parent, recover, closed, ended, left, recvVars, peerVars>>

\* The streams visited: from stream_iter round to where it was when the check began.
Visited(start) ==
  LET n == IF start = iter THEN nstr ELSE (start + nstr - iter) % nstr
  IN  [j \in 1..n |-> ((iter + j - 1) % nstr) + 1]
Network_recv_stream_check(t) ==
  LET vis == Visited(thr[t].start)
      hits == {j \in 1..Len(vis) : bufs[vis[j]] # <<>>}
      hit == CHOOSE j \in hits : \A k \in hits : j <= k
  IN  IF hits = {} THEN [s |-> 0, p |-> NoPacket, iter |-> thr[t].start]
      ELSE [s |-> vis[hit], p |-> Head(bufs[vis[hit]]), iter |-> vis[hit] % nstr]
Stream_get_IncomingPacket(s) ==
  IF bufs[s] = <<>> THEN [s |-> 0, p |-> NoPacket, iter |-> iter] ELSE [s |-> s, p |-> Head(bufs[s]), iter |-> iter]
Look(t) == IF thr[t].op = "stream" THEN Stream_get_IncomingPacket(thr[t].s) ELSE Network_recv_stream_check(t)
MayLook(t) == thr[t].op = "stream" \/ Free("NET", t)
Popped_kept(f) == bufs
Popped(f) == IF f.s = 0 THEN bufs ELSE [bufs EXCEPT ![f.s] = Tail(@)]
Delivered(f) == [given EXCEPT ![f.s] = Append(@, f.p)]

\* Network_recv and Stream_recv first look into the buffers.
Check(t) ==
  /\ At(t, "check") /\ MayLook(t)
  /\ LET f == Look(t) IN
       /\ iter' = f.iter /\ bufs' = Popped(f)
       /\ IF f.s = 0 THEN Go(t, "lock") /\ UNCHANGED <<given, lock>>
          ELSE /\ given' = Delivered(f)
               /\ thr' = [thr EXCEPT ![t] = Returned(@, TRUE)] /\ lock' = ReturnLock(lock, thr[t], TRUE)
  /\ UNCHANGED <<recovering, parent, recover, closed, ended, left, listening, nstr, requeued, castUnheld, peerVars>>

\* Stream_recv after recv_internal: the size is read, then the packet is taken, with no lock.
StreamLoop(t) ==
  /\ At(t, "sloop")
  /\ Go(t, IF bufs[thr[t].s] = <<>> THEN "lock" ELSE "sget")
  /\ UNCHANGED <<lock, recovering, parent, recover, closed, ended, left, recvVars, peerVars>>
StreamGet(t) ==
  /\ At(t, "sget")
  /\ LET f == Stream_get_IncomingPacket(thr[t].s) IN
       IF f.s = 0 THEN Ends("assert") /\ UNCHANGED <<bufs, given>>
       ELSE /\ bufs' = Popped(f) /\ given' = Delivered(f)
            /\ thr' = [thr EXCEPT ![t] = Returned(@, TRUE)] /\ UNCHANGED ended
  /\ UNCHANGED <<lock, recovering, parent, recover, closed, left, listening, nstr, iter, requeued, castUnheld, peerVars>>

-----------------------------------------------------------------------------
\* Network_recv_internal

RecvLock(t) ==
  /\ (At(t, "lock") \/ At(t, "woken")) /\ Free("RECV", t)
  /\ lock' = Locked(lock, "RECV", t)
  /\ thr' = [thr EXCEPT ![t].pc = "rcheck", ![t].start = iter]
  /\ UNCHANGED <<recovering, parent, recover, closed, ended, left, recvVars, peerVars>>

RecvCheck(t) ==
  /\ At(t, "rcheck") /\ MayLook(t)
  /\ LET f == Look(t) IN
       /\ iter' = f.iter /\ bufs' = Popped(f)
       /\ thr' = [thr EXCEPT ![t].ready = f.p, ![t].pc = IF thr[t].checked THEN "loop" ELSE "orig",
                             ![t].checked = TRUE]
  /\ UNCHANGED <<lock, recovering, parent, recover, closed, ended, left, listening, nstr, given, requeued, castUnheld, peerVars>>

\* Network_get_ParentNode waits for a parent (PARENT_NODE_AVAILABLE), unless it is shut down.
GotParent(t) == Free("PARENT", t) /\ (parent # NoPeer \/ closed)
OrigParent(t) ==
  /\ At(t, "orig") /\ GotParent(t)
  /\ thr' = [thr EXCEPT ![t].orig = parent, ![t].pc = "loop"]
  /\ UNCHANGED <<lock, recovering, parent, recover, closed, ended, left, recvVars, peerVars>>

\* The loop: process the packet found, or become the listener, or give up, or wait.
ProcReady(t) ==
  /\ At(t, "loop") /\ thr[t].ready # NoPacket
  /\ thr' = [thr EXCEPT ![t].list = <<thr[t].ready>>, ![t].ready = NoPacket, ![t].pc = "proc"]
  /\ requeued' = TRUE
  /\ UNCHANGED <<lock, recovering, parent, recover, closed, ended, left, listening, nstr, iter, bufs, given, castUnheld, peerVars>>
BecomeListener_any(t) ==
  /\ At(t, "loop") /\ thr[t].ready = NoPacket
  /\ listening' = 1 /\ lock' = Unlocked(lock, "RECV")
  /\ thr' = [thr EXCEPT ![t].listened = TRUE, ![t].pc = "recv"]
  /\ UNCHANGED <<recovering, parent, recover, closed, ended, left, nstr, iter, bufs, given, requeued, castUnheld, peerVars>>
BecomeListener(t) ==
  /\ At(t, "loop") /\ thr[t].ready = NoPacket /\ listening = 0
  /\ listening' = 1 /\ lock' = Unlocked(lock, "RECV")
  /\ thr' = [thr EXCEPT ![t].listened = TRUE, ![t].pc = "recv"]
  /\ UNCHANGED <<recovering, parent, recover, closed, ended, left, nstr, iter, bufs, given, requeued, castUnheld, peerVars>>
GiveUp(t) ==
  /\ At(t, "loop") /\ thr[t].ready = NoPacket /\ listening = 1 /\ ~thr[t].blk
  /\ lock' = AfterLock(Unlocked(lock, "RECV"), thr[t], 0)
  /\ thr' = [thr EXCEPT ![t] = AfterInternal(@, 0)]
  /\ UNCHANGED <<recovering, parent, recover, closed, ended, left, recvVars, peerVars>>
DecideToWait(t) ==
  /\ At(t, "loop") /\ thr[t].ready = NoPacket /\ listening = 1 /\ thr[t].blk
  /\ Go(t, "towait")
  /\ UNCHANGED <<lock, recovering, parent, recover, closed, ended, left, recvVars, peerVars>>
Wait(t) ==
  /\ At(t, "towait")
  /\ lock' = Unlocked(lock, "RECV") /\ Go(t, "asleep")
  /\ UNCHANGED <<recovering, parent, recover, closed, ended, left, recvVars, peerVars>>

\* The listener: Network_recv_PacketsFromParent, for the first time or after a recovery.
GetParent(t) ==
  /\ (At(t, "recv") \/ At(t, "retry")) /\ GotParent(t)
  /\ thr' = [thr EXCEPT ![t].peer = parent, ![t].pc = IF thr[t].pc = "recv" THEN "read" ELSE "reread"]
  /\ UNCHANGED <<lock, recovering, parent, recover, closed, ended, left, recvVars, peerVars>>

\* PeerNode_recv: one message; nothing if there is none and the call may not block; -1 at the
\* end of the connection.
Readable(p) == p # NoPeer /\ inbox[p] # <<>>
PeerNode_recv(t) ==
  LET p == thr[t].peer IN
  /\ At(t, "read") \/ At(t, "reread")
  /\ \/ /\ Readable(p)
        /\ thr' = [thr EXCEPT ![t].list = Head(inbox[p]), ![t].pc = "relock"]
        /\ inbox' = [inbox EXCEPT ![p] = Tail(@)]
     \/ /\ ~Readable(p) /\ p \in gone \cup {NoPeer}
        /\ Go(t, IF thr[t].pc = "read" THEN "event" ELSE "fail") /\ UNCHANGED inbox
     \/ /\ ~Readable(p) /\ p \in Peers \ gone /\ ~thr[t].blk
        /\ Go(t, "relock") /\ UNCHANGED inbox
  /\ UNCHANGED <<lock, recovering, parent, recover, closed, ended, left, recvVars, script, gone, event>>

\* Network_recv_EventFromParent locks PARENT_SYNC and then calls get_ParentNode, which locks
\* it again: waiting for a parent there gives back one of the two levels.
EventLock(t) ==
  /\ At(t, "event") /\ Free("PARENT", t)
  /\ lock' = Locked(lock, "PARENT", t)
  /\ IF parent # NoPeer \/ closed THEN thr' = [thr EXCEPT ![t].peer = parent, ![t].pc = "evread"]
     ELSE Go(t, "nested")
  /\ UNCHANGED <<recovering, parent, recover, closed, ended, left, recvVars, peerVars>>

\* PeerNode_recv_event reads the event connection, waiting for a packet: PeerNode_has_event_data
\* is false only when select fails, which it does on a socket that is closed.
EventRead(t) ==
  LET p == thr[t].peer
      failed == p = NoPeer \/ (event[p] = "none" /\ p \in gone)
  IN
  /\ At(t, "evread") /\ (~failed => event[p] # "none")
  /\ lock' = Unlocked(lock, "PARENT")
  /\ thr' = [thr EXCEPT ![t].pc = IF ~failed THEN "relock" ELSE IF recover THEN "recov" ELSE "fail",
                        ![t].list = IF ~failed /\ event[p] = "shutdown" THEN <<PROT_EDT_REMOTE_SHUTDOWN>> ELSE @]
  /\ event' = IF ~failed /\ event[p] = "shutdown" THEN [event EXCEPT ![p] = "none"] ELSE event
  /\ UNCHANGED <<recovering, parent, recover, closed, ended, left, recvVars, script, inbox, gone>>

\* "We are first ones here" if the parent is the one recv_internal began with.
RecovCheck(t) ==
  /\ At(t, "recov") /\ GotParent(t)
  /\ Go(t, IF parent = thr[t].orig THEN "enter" ELSE "retry")
  /\ UNCHANGED <<lock, recovering, parent, recover, closed, ended, left, recvVars, peerVars>>

Relock(t) ==
  /\ At(t, "relock") /\ Free("RECV", t)
  /\ lock' = Locked(lock, "RECV", t) /\ Go(t, "proc")
  /\ UNCHANGED <<recovering, parent, recover, closed, ended, left, recvVars, peerVars>>

Woken == [u \in Threads |-> IF thr[u].pc = "asleep" THEN [thr[u] EXCEPT !.pc = "woken"] ELSE thr[u]]
CleanUp_quiet(t, ret) ==
  /\ listening' = IF thr[t].listened THEN 0 ELSE listening
  /\ thr' = [thr EXCEPT ![t] = AfterInternal(@, ret)]
\* recv_clean_up: who listened stops, and wakes those who wait.
CleanUp(t, ret) ==
  /\ listening' = IF thr[t].listened THEN 0 ELSE listening
  /\ thr' = [(IF thr[t].listened THEN Woken ELSE thr) EXCEPT ![t] = AfterInternal(@, ret)]

\* What a packet does: at the shutdown the event connection is closed and recovery disabled;
\* data goes into its stream's buffer, and fails if there is no such stream.  (The other
\* control packets leave this state alone: modules LightTopology and PerfData.)
BackEndNode_proc_DeleteSubTree(net) == [net EXCEPT !.recover = FALSE, !.closed = TRUE, !.event = "closed"]
BackEndNode_proc_newStream(net) == [net EXCEPT !.nstr = @ + 1]
BackEndNode_proc_DataFromParent(net, p) ==
  IF p[1] > net.nstr THEN [net EXCEPT !.ret = 2] ELSE [net EXCEPT !.bufs[p[1]] = Append(@, p)]
proc_PacketFromParent(net, p) ==
  CASE p = PROT_EDT_REMOTE_SHUTDOWN -> BackEndNode_proc_DeleteSubTree(net)
    [] p = PROT_NEW_STREAM -> BackEndNode_proc_newStream(net)
    [] p = PROT_ENABLE_RECOVERY -> [net EXCEPT !.recover = TRUE]
    [] p = PROT_DISABLE_RECOVERY -> [net EXCEPT !.recover = FALSE]
    [] OTHER -> BackEndNode_proc_DataFromParent(net, p)
\* BackEndNode_proc_DeleteSubTree follows net->parent to the event connection.
ChildNode_proc_PacketsFromParent(t) ==
  LET list == thr[t].list
      stops == \E i \in 1..Len(list) : list[i] = PROT_EDT_REMOTE_SHUTDOWN
      net == FoldLeft(proc_PacketFromParent,
                      [nstr |-> nstr, bufs |-> bufs, recover |-> recover, closed |-> closed,
                       event |-> IF parent = NoPeer THEN "none" ELSE event[parent],
                       ret |-> IF list = <<>> THEN 0 ELSE 1], list)
  IN
  /\ At(t, "proc") /\ (list # <<>> => Free("NET", t))
  /\ IF stops /\ parent = NoPeer
     THEN Ends("null") /\ UNCHANGED <<listening, recover, closed, nstr, bufs, event, lock>>
     ELSE /\ nstr' = net.nstr /\ bufs' = net.bufs /\ recover' = net.recover /\ closed' = net.closed
          /\ event' = IF stops THEN [event EXCEPT ![parent] = net.event] ELSE event
          /\ CleanUp(t, net.ret)
          /\ lock' = AfterLock(Unlocked(lock, "RECV"), thr[t], net.ret)
          /\ UNCHANGED ended
  /\ UNCHANGED <<recovering, parent, left, iter, given, requeued, castUnheld, script, inbox, gone>>

\* The same when the second receive fails, or recovery is off: RECV_SYNC is not held.
FailCleanUp(t) ==
  /\ At(t, "fail")
  /\ CleanUp(t, 2) /\ lock' = AfterLock(lock, thr[t], 2)
  /\ castUnheld' = (castUnheld \/ lock["RECV"].by # NoThread)
  /\ UNCHANGED <<recovering, parent, recover, closed, ended, left, nstr, iter, bufs, given, requeued, peerVars>>

-----------------------------------------------------------------------------
\* Network_send_PacketToParent
SendParent(t) ==
  /\ (At(t, "send") \/ At(t, "sendnew")) /\ GotParent(t)
  /\ IF parent = NoPeer THEN Ends("null")
     ELSE /\ thr' = [thr EXCEPT ![t].peer = parent, ![t].pc = IF thr[t].pc = "send" THEN "write" ELSE "rewrite"]
          /\ UNCHANGED ended
  /\ UNCHANGED <<lock, recovering, parent, recover, closed, left, recvVars, peerVars>>

\* A packet for a peer that has gone may still be accepted by the kernel, and be lost.
PeerNode_sendDirectly(t) ==
  /\ At(t, "write") \/ At(t, "rewrite")
  /\ \/ thr' = [thr EXCEPT ![t] = Idle]
     \/ /\ thr[t].peer \in gone /\ thr[t].pc = "write" /\ recover
        /\ Go(t, "srecov")
  /\ UNCHANGED <<lock, recovering, parent, recover, closed, ended, left, recvVars, peerVars>>
SendRecov(t) ==
  /\ At(t, "srecov") /\ GotParent(t)
  /\ IF parent = NoPeer THEN Ends("null")
     ELSE /\ thr' = IF parent = thr[t].peer THEN [thr EXCEPT ![t].pc = "enter"]
                    ELSE [thr EXCEPT ![t].peer = parent, ![t].pc = "rewrite"]
          /\ UNCHANGED ended
  /\ UNCHANGED <<lock, recovering, parent, recover, closed, left, recvVars, peerVars>>

-----------------------------------------------------------------------------
\* Network_recover_FromParentFailure
Recovered(t) == IF thr[t].op = "send" THEN "sendnew" ELSE "retry"
RecoverEnter(t) ==
  /\ At(t, "enter") /\ Free("PARENT", t)
  /\ IF recovering = 0 THEN recovering' = 1 /\ Go(t, "mine") ELSE Go(t, "theirs") /\ UNCHANGED recovering
  /\ UNCHANGED <<lock, parent, recover, closed, ended, left, recvVars, peerVars>>
RecoverOther(t) ==
  /\ At(t, "theirs") /\ Free("PARENT", t) /\ recovering = 0
  /\ Go(t, Recovered(t))
  /\ UNCHANGED <<lock, recovering, parent, recover, closed, ended, left, recvVars, peerVars>>
RecoverLock(t) ==
  /\ At(t, "mine") /\ Free("NET", t)
  /\ lock' = Locked(lock, "NET", t) /\ Go(t, "drop")
  /\ UNCHANGED <<recovering, parent, recover, closed, ended, left, recvVars, peerVars>>
\* The parent of now is given up; NetworkTopology_find_NewParent finds the next
\* one, or the process exits.
RecoverDrop(t) ==
  /\ At(t, "drop") /\ Free("PARENT", t)
  /\ left' = left \cup ({parent} \ gone)
  /\ parent' = NoPeer
  /\ IF parent = NumPeers THEN Ends("exit")
     ELSE thr' = [thr EXCEPT ![t].peer = parent + 1, ![t].pc = "connect"] /\ UNCHANGED ended
  /\ UNCHANGED <<lock, recovering, recover, closed, recvVars, peerVars>>
\* When the data connection fails the call returns, with NET_SYNC locked and thread_recovering
\* set, and both callers go on as if it had succeeded.
RecoverConnect(t) ==
  /\ At(t, "connect")
  /\ Go(t, IF thr[t].peer \in gone THEN Recovered(t) ELSE "evconnect")
  /\ UNCHANGED <<lock, recovering, parent, recover, closed, ended, left, recvVars, peerVars>>
RecoverEvent(t) ==
  /\ At(t, "evconnect")
  /\ event' = IF thr[t].peer \in gone THEN [event EXCEPT ![thr[t].peer] = "closed"] ELSE event
  /\ Go(t, "finish")
  /\ UNCHANGED <<lock, recovering, parent, recover, closed, ended, left, recvVars, script, inbox, gone>>
RecoverFinish_locked(t) ==
  /\ At(t, "finish") /\ Free("PARENT", t)
  /\ recovering' = 0 /\ parent' = thr[t].peer /\ UNCHANGED lock
  /\ Go(t, Recovered(t))
  /\ UNCHANGED <<recover, closed, ended, left, recvVars, peerVars>>
RecoverFinish(t) ==
  /\ At(t, "finish") /\ Free("PARENT", t)
  /\ recovering' = 0 /\ parent' = thr[t].peer /\ lock' = Unlocked(lock, "NET")
  /\ Go(t, Recovered(t))
  /\ UNCHANGED <<recover, closed, ended, left, recvVars, peerVars>>

-----------------------------------------------------------------------------
\* The parents: send, fail, or shut the network down and leave.
ParentSends ==
  /\ ended = "no" /\ script # <<>> /\ parent \in Peers \ gone
  /\ inbox' = [inbox EXCEPT ![parent] = Append(@, Head(script))] /\ script' = Tail(script)
  /\ UNCHANGED <<lock, recovering, parent, recover, closed, thr, ended, left, recvVars, gone, event>>
ParentFails(p) ==
  /\ ended = "no" /\ p \notin gone /\ Cardinality(gone) < MaxCrashes /\ gone' = gone \cup {p}
  /\ UNCHANGED <<lock, recovering, parent, recover, closed, thr, ended, left, recvVars, script, inbox, event>>
ParentShutsDown ==
  /\ ended = "no" /\ parent \in Peers \ gone /\ event[parent] = "none"
  /\ gone' = gone \cup {parent} /\ event' = [event EXCEPT ![parent] = "shutdown"]
  /\ UNCHANGED <<lock, recovering, parent, recover, closed, thr, ended, left, recvVars, script, inbox>>

ThreadStep(t) ==
  \/ StreamCheckStart(t) \/ Check(t) \/ StreamLoop(t) \/ StreamGet(t)
  \/ RecvLock(t) \/ RecvCheck(t) \/ OrigParent(t)
  \/ ProcReady(t) \/ BecomeListener(t) \/ GiveUp(t) \/ DecideToWait(t) \/ Wait(t)
  \/ GetParent(t) \/ PeerNode_recv(t) \/ EventLock(t) \/ EventRead(t) \/ RecovCheck(t)
  \/ Relock(t) \/ ChildNode_proc_PacketsFromParent(t) \/ FailCleanUp(t)
  \/ SendParent(t) \/ PeerNode_sendDirectly(t) \/ SendRecov(t)
  \/ RecoverEnter(t) \/ RecoverOther(t) \/ RecoverLock(t) \/ RecoverDrop(t)
  \/ RecoverConnect(t) \/ RecoverEvent(t) \/ RecoverFinish(t)
NetNext ==
  \/ \E t \in Threads : Call(t) \/ ThreadStep(t)
  \/ ParentSends \/ ParentShutsDown \/ \E p \in Peers : ParentFails(p)
NetSpec == NetInit /\ [][NetNext]_netVars

-----------------------------------------------------------------------------
\* A thread that waits for the listener is woken: while it sleeps somebody listens, unless the
\* listener failed and broadcast without RECV_SYNC just when another was about to wait (the
\* no_lock path of Network_recv_internal; the sleeper then sleeps for ever).
SleepersHaveListener ==
  (~castUnheld /\ \E t \in Threads : thr[t].pc = "asleep") => \E t \in Threads : thr[t].listened

PacketsOf(msgs) == FlattenSeq(msgs)
InHands(t) == (IF thr[t].ready = NoPacket THEN <<>> ELSE <<thr[t].ready>>) \o thr[t].list
Copies(p) ==
  LET in(seq) == Cardinality({i \in 1..Len(seq) : seq[i] = p})
      inAll(f) == Cardinality({d \in DOMAIN f : in(f[d]) > 0})
  IN  inAll(bufs) + inAll(given) + inAll([t \in Threads |-> InHands(t)])
      + inAll([q \in Peers |-> PacketsOf(inbox[q])]) + in(PacketsOf(script))
\* However threads hand the listening over, put packets back and recover, every packet the
\* parents have sent is in one place: on a connection, in the hands of one thread, in its
\* stream's buffer, or with the application, to whom it is given once.  (A packet for a stream
\* whose PROT_NEW_STREAM was lost with a failed parent is dropped.)
EachPacketOnce ==
  ended = "no" =>
    /\ \A i \in 1..Len(Script) : \A j \in 1..Len(Script[i]) :
         LET p == Script[i][j] IN p[1] # 0 => Copies(p) = 1 \/ (Copies(p) = 0 /\ p[1] > nstr)
    /\ \A s \in LStreams : IsInjective(given[s])

\* The application is given the packets of a stream in the order its parents sent them, as long
\* as no thread has found a packet in recv_internal: such a packet is processed a second time
\* and goes to the end of its stream's buffer (packet_list in Network_recv_internal).
TakenInOrder ==
  ~requeued => \A s \in LStreams : \A i, j \in 1..Len(given[s]) : i < j => given[s][i][2] < given[s][j][2]

Listens(t) == thr[t].pc \in {"read", "reread"} /\ thr[t].peer \in Peers \ gone
\* What the code does not survive: RECV_SYNC and PARENT_SYNC held where another thread needs
\* them, a recovery that failed, and a broadcast nobody heard.
KnownToHang ==
  \/ castUnheld \/ left # {}
  \/ \E t \in Threads : thr[t].pc \in {"nested", "evread"} \/ thr[t].op = "wait"
  \/ recovering = 1 /\ \A t \in Threads : thr[t].pc \notin {"mine", "drop", "connect", "evconnect", "finish"}
WaitPoints == {"idle", "asleep", "woken", "check", "lock", "rcheck", "orig", "recv", "retry", "read", "reread", "event", "evread",
            "nested", "recov", "relock", "proc", "send", "sendnew", "srecov", "enter", "theirs", "mine", "drop", "finish"}
\* When no thread can go on, every call in progress waits for a living parent, directly or
\* through the thread that listens for it: the three monitors, the two conditions and the
\* recovery never leave all threads waiting for each other, except in the ways KnownToHang lists.
OnlyParentAwaited ==
  (ended = "no" /\ ~KnownToHang /\ \A t \in Threads : thr[t].pc \in WaitPoints /\ ~ENABLED ThreadStep(t)) =>
    \A t \in Threads : thr[t].pc = "idle" \/ Listens(t) \/ (thr[t].pc = "asleep" /\ \E u \in Threads : Listens(u))

\* The threads of a lightweight back-end share one connection without losing, repeating or
\* reordering a packet and without waiting for each other.
LightThreadsCorrect == SleepersHaveListener /\ EachPacketOnce /\ TakenInOrder /\ OnlyParentAwaited
=============================================================================
