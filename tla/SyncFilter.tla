------------------------------ MODULE SyncFilter ------------------------------
(***************************************************************************)
(* Upstream synchronization of one stream in a process with children       *)
(* (src/src/FilterDefinitions.C, Filter.C, TimeKeeper.C, Stream.C):  the   *)
(* receive thread of every child pushes its packets through the stream's   *)
(* synchronization filter, which holds them back until a wave is complete; *)
(* the event-detection thread takes failed children out of the topology    *)
(* and of the stream, and flushes a TimeOut filter whose timer expired.    *)
(*                                                                         *)
(* A filter call holds Filter::_mutex and is three steps here, because the *)
(* topology and the stream's peers are read under other locks:  look the   *)
(* ranks up, place the packet, compare with the peers.  What the call      *)
(* returns is transformed and sent on after the mutex is released.         *)
(*                                                                         *)
(* NetworkTopology::remove_Node erases and deletes the Node it marks       *)
(* failed.  A rank that is not found has failed for sfilter_WaitForAll     *)
(* (node_Failed) and has not for sfilter_TimeOut, and a Node found before  *)
(* it is deleted and read afterwards may say either.                       *)
(***************************************************************************)
EXTENDS Naturals, Sequences, FiniteSets

CONSTANTS Children,     \* ranks with a child connection; all are peers at first
          Det, Local,   \* the event-detection thread; a thread that sends locally
          Setups,       \* the streams looked at
          Timeout,      \* the timeout_ms of a TimeOut filter
          MaxElapsed,   \* bound: time that one eventWait can take
          MaxPackets,   \* bound: packets from one child
          MaxFailures   \* bound: children that fail

NoTimer == 0
NoOne == "no one"
Threads == Children \cup {Det, Local}

ASSUME ThreadsAssumption ==
  Det \notin Children /\ Local \notin Children /\ Det # Local /\ NoOne \notin Threads
ASSUME ChildrenAssumption == IsFiniteSet(Children) /\ Children # {}
ASSUME BoundsAssumption == Timeout \in Nat \ {0} /\ MaxElapsed \in Nat /\ MaxPackets \in Nat
ASSUME SetupsAssumption ==
  Setups \subseteq [kind : {"WAITFORALL", "TIMEOUT", "DONTWAIT"},
                    topol : BOOLEAN,      \* it is the topology stream
                    breakable : BOOLEAN]  \* front-end without failure recovery

VARIABLES
  setup,           \* the stream this is
  gone,            \* ranks erased from the NetworkTopology
  peers, closed,   \* Stream::_peers, is_Closed()
  slots, ready,    \* filter state: packets_by_rank, ready_peers
  active,          \* filter state: active_timeout
  timer,           \* this stream's entry in TimeKeeper::_strm_timeouts
  mutex,           \* owner of Filter::_mutex
  pc,              \* control location of every thread
  seen,            \* ranks that the filter call under way read: in the topology, then peers
  hand,            \* what a thread got from the filter and has yet to send on
  sent,            \* packets that came from every child, and from Local
  delivered        \* the waves sent on, in order

topology == <<gone, peers, closed>>
filter == <<slots, ready, active>>
vars == <<setup, topology, filter, timer, mutex, pc, seen, hand, sent, delivered>>

kind == setup.kind

\* The packet that thread t has in hand is the last one that came to it.
Current(t) == <<t, sent[t]>>

\* What a filter call returned: the packets, the peers they were compared with, and
\* whether that comparison released them.
Output(packets, with, counted) == [packets |-> packets, peers |-> with, counted |-> counted]
Nothing == Output({}, {}, FALSE)
OutputSet == [packets : SUBSET (Threads \X Nat), peers : SUBSET Children, counted : BOOLEAN]
Labels == {"idle", "expired", "remove", "place", "judge", "deliver"}

\* The types of the variables: the slots hold packets of children, the timer stays in its
\* range, every thread is at a label of push_Packets or of the event detector.
TypeOK ==
  /\ setup \in Setups
  /\ gone \subseteq Children /\ peers \subseteq Children /\ closed \in BOOLEAN
  /\ slots \in [Children -> Seq(Children \X Nat)]
  /\ ready \subseteq Children /\ active \in BOOLEAN
  /\ timer \in 0..Timeout
  /\ mutex \in Threads \cup {NoOne}
  /\ pc \in [Threads -> Labels]
  /\ seen \subseteq Children
  /\ hand \in [Threads -> OutputSet]
  /\ sent \in [Children \cup {Local} -> Nat]
  /\ delivered \in Seq(SUBSET (Threads \X Nat))

Init ==
  /\ setup \in Setups
  /\ gone = {} /\ peers = Children /\ closed = FALSE
  /\ slots = [c \in Children |-> <<>>] /\ ready = {} /\ active = FALSE
  /\ timer = NoTimer /\ mutex = NoOne /\ seen = {}
  /\ pc = [t \in Threads |-> "idle"]
  /\ hand = [t \in Threads |-> Nothing]
  /\ sent = [t \in Children \cup {Local} |-> 0]
  /\ delivered = <<>>

------------------------------------------------------------------------------
\* A packet comes in:  from a child (proc_DataFromChildren), or from a local sender
\* (send_aux), whose packets have no inlet rank.
Arrive(t) ==
  /\ pc[t] = "idle" /\ t # Det
  /\ sent[t] < (IF t = Local THEN 1 ELSE MaxPackets)
  /\ sent' = [sent EXCEPT ![t] = @ + 1]

\* Filter::push_Packets takes the mutex; the filter looks up the ranks that it holds
\* packets of.  The event-detection thread pushes a NullPacket, that is no packet.
Enter(t) ==
  /\ mutex = NoOne
  /\ \/ Arrive(t) /\ kind # "DONTWAIT"
     \/ t = Det /\ pc[Det] = "expired" /\ UNCHANGED sent
  /\ mutex' = t
  /\ seen' = Children \ gone
  /\ pc' = [pc EXCEPT ![t] = "place"]
  /\ UNCHANGED <<setup, topology, filter, timer, hand, delivered>>

\* The NULL filter:  no mutex, no state.
PassThrough(t) ==
  /\ kind = "DONTWAIT"
  /\ Arrive(t)
  /\ hand' = [hand EXCEPT ![t] = Output({<<t, sent[t] + 1>>}, {}, FALSE)]
  /\ pc' = [pc EXCEPT ![t] = "deliver"]
  /\ UNCHANGED <<setup, topology, filter, timer, mutex, seen, delivered>>

\* Ranks that a call may take for failed: the ones it did not find, under WaitForAll,
\* and any of those deleted since it found them.
Missing == IF kind = "WAITFORALL" THEN Children \ seen ELSE {}
Verdicts == {Missing \cup d : d \in SUBSET (seen \cap gone)}

Discard(failed) == [c \in Children |-> IF c \in failed THEN <<>> ELSE slots[c]]

\* Steps 1 and 2 of the filters.  The rank of the packet is looked up again, so that the
\* two verdicts on it can differ.  A packet without inlet rank goes straight through.
\* sfilter_TimeOut reads the peers before it places the packet, and the topology stream
\* learns of a peer from its first packet (add_Stream_Peer).
Place(t) ==
  /\ pc[t] = "place"
  /\ LET learned == IF setup.topol /\ kind = "TIMEOUT" /\ t \in Children THEN {t} ELSE {}
     IN /\ peers' = peers \cup (learned \ gone)
        /\ seen' = IF kind = "TIMEOUT" /\ t \in Children THEN peers \cup learned ELSE {}
  /\ \E failed \in Verdicts, failed2 \in Verdicts :
       LET placed == t \in Children \ failed2
       IN /\ slots' = IF placed THEN [Discard(failed) EXCEPT ![t] = Append(@, Current(t))]
                                ELSE Discard(failed)
          /\ ready' = (ready \ failed) \cup (IF placed THEN {t} ELSE {})
  /\ IF t = Local
       THEN /\ hand' = [hand EXCEPT ![t] = Output({Current(t)}, {}, FALSE)]
            /\ pc' = [pc EXCEPT ![t] = "deliver"]
            /\ mutex' = NoOne
       ELSE /\ pc' = [pc EXCEPT ![t] = "judge"]
            /\ UNCHANGED <<hand, mutex>>
  /\ UNCHANGED <<setup, gone, closed, active, timer, sent, delivered>>

\* TimeKeeper::register_Timeout: false when the stream has a timer already.
register_Timeout(t) == t # Det /\ kind = "TIMEOUT" /\ ~active /\ timer = NoTimer

\* A timer that is cleared after a complete wave.
NextTimer_cleared(t, complete) ==
  IF complete THEN NoTimer ELSE IF register_Timeout(t) THEN Timeout ELSE timer

\* A complete wave does not clear the timer that was set for it.
NextTimer(t, complete) == IF register_Timeout(t) THEN Timeout ELSE timer

\* What is left if pkt_vec->erase is forgotten.
Popped_kept(c) == slots[c]

\* What is left of a rank's slot after its packet was taken.
Popped(c) == IF slots[c] = <<>> THEN <<>> ELSE Tail(slots[c])

\* The newest packet of every rank instead of the oldest.
Heads_newest == {slots[c][Len(slots[c])] : c \in {d \in Children : slots[d] # <<>>}}

Heads == {Head(slots[c]) : c \in {d \in Children : slots[d] # <<>>}}
Held == UNION {{slots[c][i] : i \in DOMAIN slots[c]} : c \in Children}

\* A comparison off by one, either way.
Complete_early(t, with) == t = Det \/ Cardinality(ready) + 1 >= Cardinality(with)
Complete_late(t, with) == t = Det \/ Cardinality(ready) > Cardinality(with)

\* Step 3.  The wave is complete when as many ranks are ready as there are peers:  one
\* packet of every rank then goes out, and all packets after a timeout.
Complete(t, with) == t = Det \/ Cardinality(ready) >= Cardinality(with)

Judge(t) ==
  /\ pc[t] = "judge"
  /\ LET with == IF kind = "TIMEOUT" THEN seen ELSE peers  \* WaitForAll reads them now
         complete == Complete(t, with)
         out == IF ~complete THEN {} ELSE IF t = Det THEN Held ELSE Heads
     IN /\ timer' = NextTimer(t, complete)
        /\ active' = (kind = "TIMEOUT" /\ ~complete /\ (active \/ register_Timeout(t)))
        /\ slots' = [c \in Children |-> IF ~complete THEN slots[c]
                                        ELSE IF t = Det THEN <<>> ELSE Popped(c)]
        /\ ready' = {c \in ready : ~complete \/ slots'[c] # <<>>}
        /\ hand' = [hand EXCEPT ![t] = IF out = {} THEN Nothing
                                       ELSE Output(out, with, t # Det)]
        /\ pc' = [pc EXCEPT ![t] = IF out = {} THEN "idle" ELSE "deliver"]
  /\ mutex' = NoOne /\ seen' = {}
  /\ UNCHANGED <<setup, topology, sent, delivered>>

\* The transformation filter, and then the parent's outgoing buffer or the stream's
\* incoming one:  both after the mutex was released, so that waves can overtake.
Deliver(t) ==
  /\ pc[t] = "deliver"
  /\ delivered' = Append(delivered, hand[t].packets)
  /\ hand' = [hand EXCEPT ![t] = Nothing]
  /\ pc' = [pc EXCEPT ![t] = "idle"]
  /\ UNCHANGED <<setup, topology, filter, timer, mutex, seen, sent>>

\* A timer that expires without a push.
handle_Timeout_silent(elapsed) ==
  /\ pc[Det] = "idle" /\ timer # NoTimer
  /\ timer' = IF timer <= elapsed THEN NoTimer ELSE timer - elapsed
  /\ UNCHANGED <<setup, topology, filter, mutex, pc, seen, hand, sent, delivered>>

\* eventWait timed out: TimeKeeper::notify_Elapsed, and a push for an expired timer.
handle_Timeout(elapsed) ==
  /\ pc[Det] = "idle" /\ timer # NoTimer
  /\ IF timer <= elapsed
       THEN timer' = NoTimer /\ pc' = [pc EXCEPT ![Det] = "expired"]
       ELSE timer' = timer - elapsed /\ UNCHANGED pc
  /\ UNCHANGED <<setup, topology, filter, mutex, seen, hand, sent, delivered>>

\* A child failed:  Network::remove_Node first erases the rank from the topology and the
\* router ...
ChildFailed(c) ==
  /\ pc[Det] = "idle" /\ c \notin gone /\ Cardinality(gone) < MaxFailures
  /\ gone' = gone \cup {c}
  /\ pc' = [pc EXCEPT ![Det] = "remove"]
  /\ UNCHANGED <<setup, peers, closed, filter, timer, mutex, seen, hand, sent, delivered>>

\* ... and then takes it out of the stream (Stream::remove_Node, which breaks the stream
\* of a front-end without recovery, and recompute_ChildrenNodes).
RemovePeer ==
  /\ pc[Det] = "remove"
  /\ closed' = (closed \/ (setup.breakable /\ peers \cap gone # {}))
  /\ peers' = IF closed THEN peers ELSE IF closed' THEN {} ELSE Children \ gone
  /\ pc' = [pc EXCEPT ![Det] = "idle"]
  /\ UNCHANGED <<setup, gone, filter, timer, mutex, seen, hand, sent, delivered>>

\* One thread's next step of a push.
Push(t) == Enter(t) \/ Place(t) \/ Judge(t) \/ Deliver(t) \/ PassThrough(t)

Next ==
  \/ \E t \in Threads : Push(t)
  \/ \E e \in 1..MaxElapsed : handle_Timeout(e)
  \/ \E c \in Children : ChildFailed(c)
  \/ RemovePeer

Spec == Init /\ [][Next]_vars

\* A thread inside a filter call or with packets to send goes on; the poll of the
\* event-detection thread times out as long as nothing else happens to it.  Nobody has
\* to send.
Fairness ==
  /\ \A t \in Threads : WF_vars(Place(t) \/ Judge(t) \/ Deliver(t))
  /\ WF_vars(Enter(Det))
  /\ WF_vars(RemovePeer)
  /\ WF_vars(handle_Timeout(1))

FairSpec == Spec /\ Fairness
------------------------------------------------------------------------------
Outputs == {hand[t].packets : t \in Threads} \cup {delivered[i] : i \in DOMAIN delivered}

\* Where a packet is: how often it is in the filter, on its way, and delivered.
Copies(p) ==
  Cardinality({x \in Children \X (1..MaxPackets) :
                 x[2] \in DOMAIN slots[x[1]] /\ slots[x[1]][x[2]] = p})
  + Cardinality({t \in Threads : p \in hand[t].packets})
  + Cardinality({i \in DOMAIN delivered : p \in delivered[i]})

\* A packet that has been handed to the filter is in exactly one place, whatever the
\* threads do: waves neither lose nor repeat one.  Only the packets of a failed child
\* may be dropped.
ExactlyOnce ==
  \A c \in Children : \A n \in 1..sent[c] :
    LET inCall == pc[c] = "place" /\ n = sent[c]
    IN Copies(<<c, n>>) \in (IF inCall THEN {0} ELSE IF c \in gone THEN {0, 1} ELSE {1})

\* A child's packets leave the filter in the order in which they came, even if failures
\* and timeouts empty slots in between.
ChildOrder ==
  \A o \in Outputs : \A p \in o : p[1] # Local =>
    \A i \in DOMAIN slots[p[1]] : p[2] < slots[p[1]][i][2]

\* The n-th packet of every child.
Wave(n) == {<<c, n>> : c \in Children}

\* As long as no child has failed, what a WaitForAll stream reduces is one packet of every
\* child, and the same one of each:  its n-th.  The filter only counts ready ranks.
WaveAligned ==
  kind = "WAITFORALL" /\ gone = {} =>
    \A o \in Outputs : o \in {{}} \cup {{<<Local, 1>>}} \/
       \E n \in 1..MaxPackets : o = Wave(n)

\* Every call takes out at most one wave, and nobody looks at the filter between calls:
\* still no call leaves a complete wave behind, as long as no child has failed.
NoWaveLeft ==
  kind # "DONTWAIT" /\ gone = {} /\ mutex = NoOne =>
    \E c \in Children : slots[c] = <<>>

\* A TimeOut filter never holds packets without a timer that will release them, although
\* a complete wave resets active_timeout and leaves the TimeKeeper alone, and a later
\* registration may be refused.
HeldHasTimer ==
  kind = "TIMEOUT" /\ Held # {} /\ mutex = NoOne =>
    timer # NoTimer \/ pc[Det] = "expired"

\* The wave that the comparison of the sizes releases has a packet of every peer ("check for a
\* complete wave", FilterDefinitions.C:1670), also while children are taken out.  Only a child
\* that is no longer a peer and still among the ready ranks can make up for one that has
\* sent nothing: then the wave carries its packet.
WaveComplete ==
  \A t \in Threads : hand[t].counted =>
    LET from == {p[1] : p \in hand[t].packets}
    IN  hand[t].peers \subseteq from \/ ~(from \subseteq hand[t].peers \cup {Local})

\* A packet held by a TimeOut filter is sent on in the end, whatever the other children
\* do, unless its sender fails.
TimeoutDelivers ==
  \A c \in Children, n \in 1..MaxPackets :
    (kind = "TIMEOUT" /\ <<c, n>> \in Held)
      ~> (c \in gone \/ \E i \in DOMAIN delivered : <<c, n>> \in delivered[i])

\* Once every child has sent its n-th packet to a WaitForAll stream, the n-th wave is sent
\* on, unless a child fails.
WaveDelivered ==
  \A n \in 1..MaxPackets :
    (kind = "WAITFORALL" /\ \A c \in Children : sent[c] >= n)
      ~> (gone # {} \/ \E i \in DOMAIN delivered : delivered[i] = Wave(n))

\* Filters neither lose nor repeat a packet, nor change the order of a child's packets, whatever
\* threads, failures and timeouts do meanwhile (Filter::push_Packets).
ExactlyOnceInOrder == ExactlyOnce /\ ChildOrder

\* What a synchronization filter holds is sent on in the end: by the timer, or with the wave
\* that the last child completes (sfilter_TimeOut, sfilter_WaitForAll).
HeldIsDelivered == TimeoutDelivers /\ WaveDelivered
=============================================================================
