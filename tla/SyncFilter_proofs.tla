-------------------------- MODULE SyncFilter_proofs --------------------------
(***************************************************************************)
(* Proofs about SyncFilter, for any set of children, any set of streams,   *)
(* any timeout and any bounds.                                             *)
(***************************************************************************)
EXTENDS SyncFilter, FiniteSetTheorems, TLAPS

\* Who is inside the filter, and what only the event-detection thread does.
LockInv ==
  /\ \A t \in Threads : pc[t] \in {"place", "judge"} <=> mutex = t
  /\ pc[Local] # "judge"
  /\ \A t \in Threads : pc[t] \in {"expired", "remove"} => t = Det
  /\ pc[Det] = "remove" => gone # {}
  /\ kind # "TIMEOUT" => /\ timer = NoTimer
                         /\ pc[Det] \notin {"expired", "place", "judge"}

\* The ready ranks are those with packets; until a failure every child is a peer and is
\* found, in the topology and among the peers that a TimeOut filter has read.
FilterInv ==
  /\ ready = {c \in Children : slots[c] # <<>>}
  /\ gone = {} => peers = Children
  /\ gone = {} => \A t \in Threads : pc[t] = "place" => seen = Children
  /\ gone = {} /\ kind = "TIMEOUT" =>
       \A t \in Children : pc[t] = "judge" => seen = Children

\* Until a failure there is no complete wave in the filter, except in a call that has
\* just completed one, and that call leaves a slot empty.
WaveInv ==
  gone = {} =>
    /\ (\A t \in Threads : pc[t] # "judge") => \E c \in Children : slots[c] = <<>>
    /\ \A t \in Children : pc[t] = "judge" => \E c \in Children : Len(slots[c]) <= 1

\* The event-detection thread is going to flush the filter.
Pending == timer # NoTimer \/ pc[Det] \in {"expired", "place", "judge"}

\* A filter that thinks it has a timer, or holds packets, will be flushed.
TimerInv ==
  kind = "TIMEOUT" =>
    /\ active => Pending
    /\ (\E c \in Children : slots[c] # <<>>) => Pending \/ mutex \in Children

SyncInv == TypeOK /\ LockInv /\ FilterInv /\ WaveInv /\ TimerInv

------------------------------------------------------------------------------
\* The outcome of the size comparison: until a failure, a thread of a child finds the
\* wave complete exactly when every child is ready.
LEMMA CompleteMeansAll ==
  ASSUME TypeOK, FilterInv, gone = {}, NEW t \in Children, pc[t] = "judge"
  PROVE  Complete(t, IF kind = "TIMEOUT" THEN seen ELSE peers) <=> ready = Children
  <1> DEFINE with == IF kind = "TIMEOUT" THEN seen ELSE peers
  <1>1. with = Children /\ ready \subseteq Children /\ t # Det
    BY ThreadsAssumption DEF TypeOK, FilterInv
  <1>2. Cardinality(ready) \in Nat /\ Cardinality(Children) \in Nat
    BY <1>1, ChildrenAssumption, FS_Subset, FS_CardinalityType
  <1>3. /\ Cardinality(ready) <= Cardinality(Children)
        /\ Cardinality(Children) = Cardinality(ready) => Children = ready
    BY <1>1, ChildrenAssumption, FS_Subset
  <1> QED
    BY <1>1, <1>2, <1>3 DEF Complete

\* The heads of the slots and all that is held are packets of children.
LEMMA OutputType ==
  ASSUME TypeOK PROVE Heads \subseteq Children \X Nat /\ Held \subseteq Children \X Nat
  <1>1. ASSUME NEW c \in Children, slots[c] # <<>> PROVE Head(slots[c]) \in Children \X Nat
    BY <1>1 DEF TypeOK
  <1>2. ASSUME NEW c \in Children, NEW i \in DOMAIN slots[c]
        PROVE  slots[c][i] \in Children \X Nat
    BY <1>2 DEF TypeOK
  <1> QED
    BY <1>1, <1>2 DEF Heads, Held

\* The steps preserve the types.
LEMMA StepType == ASSUME SyncInv, Next PROVE TypeOK'
  <1> USE DEF topology, filter, SyncInv, NoTimer
  <1> Det \in Threads /\ Local \in Threads /\ Children \subseteq Threads
    BY DEF Threads
  <1>1. ASSUME NEW t \in Threads, Enter(t) PROVE TypeOK'
    <2>1. sent' \in [Children \cup {Local} -> Nat]
      <3>1. CASE Arrive(t)
        <4>1. t \in Children \cup {Local}
          BY <3>1 DEF Arrive, Threads
        <4> QED BY <3>1, <4>1 DEF Arrive, TypeOK
      <3>2. CASE UNCHANGED sent
        BY <3>2 DEF TypeOK
      <3> QED BY <1>1, <3>1, <3>2 DEF Enter
    <2>2. pc' \in [Threads -> Labels]
      BY <1>1 DEF Enter, TypeOK, Labels
    <2> QED
      BY <1>1, <2>1, <2>2 DEF Enter, TypeOK
  <1>2. ASSUME NEW t \in Threads, Place(t) PROVE TypeOK'
    <2>1. PICK failed \in Verdicts, failed2 \in Verdicts :
            LET placed == t \in Children \ failed2
            IN /\ slots' = IF placed
                             THEN [Discard(failed) EXCEPT ![t] = Append(@, Current(t))]
                             ELSE Discard(failed)
               /\ ready' = (ready \ failed) \cup (IF placed THEN {t} ELSE {})
      BY <1>2 DEF Place
    <2>2. Discard(failed) \in [Children -> Seq(Children \X Nat)]
      BY DEF TypeOK, Discard
    <2>3. t # Det => Current(t) \in Threads \X Nat
      BY DEF Current, TypeOK, Threads
    <2>4. t \in Children => Current(t) \in Children \X Nat
      BY ThreadsAssumption DEF Current, TypeOK, Threads
    <2>5. slots' \in [Children -> Seq(Children \X Nat)] /\ ready' \subseteq Children
      BY <2>1, <2>2, <2>4 DEF TypeOK
    <2>6. hand' \in [Threads -> OutputSet]
      <3>1. t # Det => Output({Current(t)}, {}, FALSE) \in OutputSet
        BY <2>3 DEF Output, OutputSet
      <3> QED BY <1>2, <3>1, ThreadsAssumption DEF Place, TypeOK
    <2>7. pc' \in [Threads -> Labels] /\ mutex' \in Threads \cup {NoOne}
      BY <1>2 DEF Place, TypeOK, Labels
    <2> QED
      BY <1>2, <2>5, <2>6, <2>7 DEF Place, TypeOK
  <1>3. ASSUME NEW t \in Threads, Judge(t) PROVE TypeOK'
    <2> DEFINE with == IF kind = "TIMEOUT" THEN seen ELSE peers
               complete == Complete(t, with)
               out == IF ~complete THEN {} ELSE IF t = Det THEN Held ELSE Heads
    <2>2. out \subseteq Threads \X Nat /\ with \subseteq Children
      BY OutputType DEF TypeOK
    <2>3. hand' = [hand EXCEPT ![t] = IF out = {} THEN Nothing ELSE Output(out, with, t # Det)]
      BY <1>3 DEF Judge
    <2>4. hand' \in [Threads -> OutputSet]
      <3> HIDE DEF out, with
      <3>1. Nothing \in OutputSet /\ Output(out, with, t # Det) \in OutputSet
        BY <2>2 DEF Output, Nothing, OutputSet
      <3> QED BY <2>3, <3>1 DEF TypeOK
    <2>5. slots' \in [Children -> Seq(Children \X Nat)]
      <3>1. ASSUME NEW c \in Children PROVE Popped(c) \in Seq(Children \X Nat)
        BY DEF Popped, TypeOK
      <3>2. slots' = [c \in Children |-> IF ~complete THEN slots[c]
                                         ELSE IF t = Det THEN <<>> ELSE Popped(c)]
        BY <1>3 DEF Judge
      <3> HIDE DEF complete
      <3> QED BY <3>1, <3>2 DEF TypeOK
    <2>6. ready' \subseteq Children
      BY <1>3 DEF Judge, TypeOK
    <2>7. timer' \in 0..Timeout /\ active' \in BOOLEAN
      BY <1>3, BoundsAssumption DEF Judge, TypeOK, NextTimer
    <2>8. pc' \in [Threads -> Labels]
      BY <1>3 DEF Judge, TypeOK, Labels
    <2> QED
      BY <1>3, <2>4, <2>5, <2>6, <2>7, <2>8 DEF Judge, TypeOK
  <1>4. ASSUME NEW t \in Threads, Deliver(t) PROVE TypeOK'
    <2>1. hand[t].packets \in SUBSET (Threads \X Nat)
      BY <1>4 DEF TypeOK, OutputSet
    <2>2. Nothing \in OutputSet
      BY DEF Output, Nothing, OutputSet
    <2>3. pc' \in [Threads -> Labels]
      BY <1>4 DEF Deliver, TypeOK, Labels
    <2> QED BY <1>4, <2>1, <2>2, <2>3 DEF Deliver, TypeOK
  <1>5. ASSUME NEW t \in Threads, PassThrough(t) PROVE TypeOK'
    <2>1. sent[t] \in Nat /\ t \in Children \cup {Local}
      BY <1>5, ThreadsAssumption DEF PassThrough, Arrive, TypeOK, Threads
    <2>2. {<<t, sent[t] + 1>>} \in SUBSET (Threads \X Nat)
      BY <2>1
    <2>3. Output({<<t, sent[t] + 1>>}, {}, FALSE) \in OutputSet
      BY <2>2 DEF Output, OutputSet
    <2>4. pc' \in [Threads -> Labels]
      BY <1>5 DEF PassThrough, TypeOK, Labels
    <2>5. hand' \in [Threads -> OutputSet]
      BY <1>5, <2>3 DEF PassThrough, TypeOK
    <2>6. sent' \in [Children \cup {Local} -> Nat]
      BY <1>5, <2>1 DEF PassThrough, Arrive, TypeOK
    <2> QED BY <1>5, <2>4, <2>5, <2>6 DEF PassThrough, TypeOK
  <1>6. ASSUME NEW e \in 1..MaxElapsed, handle_Timeout(e) PROVE TypeOK'
    <2>1. timer' \in 0..Timeout
      BY <1>6, BoundsAssumption DEF handle_Timeout, TypeOK
    <2>2. pc' \in [Threads -> Labels]
      BY <1>6 DEF handle_Timeout, TypeOK, Labels
    <2>3. UNCHANGED <<setup, topology, filter, mutex, seen, hand, sent, delivered>>
      BY <1>6 DEF handle_Timeout
    <2> QED BY <2>1, <2>2, <2>3 DEF TypeOK
  <1>7. ASSUME NEW c \in Children, ChildFailed(c) PROVE TypeOK'
    BY <1>7 DEF ChildFailed, TypeOK, Labels
  <1>8. CASE RemovePeer
    BY <1>8 DEF RemovePeer, TypeOK, Labels
  <1> QED
    BY <1>1, <1>2, <1>3, <1>4, <1>5, <1>6, <1>7, <1>8 DEF Next, Push

\* The steps preserve the discipline of the mutex.
LEMMA StepLock == ASSUME SyncInv, Next PROVE LockInv'
  <1> USE ThreadsAssumption DEF topology, filter, SyncInv, kind
  <1> Det \in Threads /\ Local \in Threads /\ Children \subseteq Threads
    BY DEF Threads
  <1> pc \in [Threads -> Labels]
    BY DEF TypeOK
  <1>1. ASSUME NEW t \in Threads, Enter(t) PROVE LockInv'
    BY <1>1 DEF Enter, Arrive, LockInv
  <1>2. ASSUME NEW t \in Threads, Place(t) PROVE LockInv'
    <2>1. /\ pc[t] = "place" /\ UNCHANGED <<setup, gone, timer>>
          /\ IF t = Local THEN pc' = [pc EXCEPT ![t] = "deliver"] /\ mutex' = NoOne
                          ELSE pc' = [pc EXCEPT ![t] = "judge"] /\ mutex' = mutex
      BY <1>2 DEF Place
    <2> QED BY <2>1 DEF LockInv
  <1>3. ASSUME NEW t \in Threads, Judge(t) PROVE LockInv'
    <2>1. /\ pc[t] = "judge" /\ mutex' = NoOne /\ UNCHANGED <<setup, gone>>
          /\ \E l \in {"idle", "deliver"} : pc' = [pc EXCEPT ![t] = l]
          /\ kind # "TIMEOUT" => timer' = timer
      BY <1>3 DEF Judge, NextTimer, register_Timeout
    <2> QED BY <2>1 DEF LockInv
  <1>4. ASSUME NEW t \in Threads, Deliver(t) PROVE LockInv'
    BY <1>4 DEF Deliver, LockInv
  <1>5. ASSUME NEW t \in Threads, PassThrough(t) PROVE LockInv'
    BY <1>5 DEF PassThrough, Arrive, LockInv
  <1>6. ASSUME NEW e \in 1..MaxElapsed, handle_Timeout(e) PROVE LockInv'
    BY <1>6 DEF handle_Timeout, LockInv
  <1>7. ASSUME NEW c \in Children, ChildFailed(c) PROVE LockInv'
    BY <1>7 DEF ChildFailed, LockInv
  <1>8. CASE RemovePeer
    BY <1>8 DEF RemovePeer, LockInv
  <1> QED
    BY <1>1, <1>2, <1>3, <1>4, <1>5, <1>6, <1>7, <1>8 DEF Next, Push

\* What a Place step does to the slots of a stream without failures: it adds the packet of
\* a child, and nothing else.
LEMMA PlaceWithoutFailure ==
  ASSUME SyncInv, gone = {}, NEW t \in Threads, Place(t)
  PROVE  slots' = IF t \in Children THEN [slots EXCEPT ![t] = Append(@, Current(t))]
                                    ELSE slots
  <1>1. Missing = {} /\ seen = Children
    BY DEF Place, SyncInv, FilterInv, Missing
  <1>2. \A f \in Verdicts : f = {}
    BY <1>1 DEF Verdicts
  <1>3. Discard({}) = slots
    BY DEF Discard, SyncInv, TypeOK
  <1> QED
    BY <1>2, <1>3 DEF Place

\* The steps keep ready_peers in line with the slots, and the peers until a failure.
LEMMA StepFilter == ASSUME SyncInv, Next PROVE FilterInv'
  <1> USE ThreadsAssumption DEF topology, filter, SyncInv, FilterInv
  <1> Det \in Threads /\ Local \in Threads /\ Children \subseteq Threads
    BY DEF Threads
  <1> pc \in [Threads -> Labels] /\ slots \in [Children -> Seq(Children \X Nat)]
    BY DEF TypeOK
  <1>1. ASSUME NEW t \in Threads, Enter(t) PROVE FilterInv'
    BY <1>1 DEF Enter, LockInv
  <1>2. ASSUME NEW t \in Threads, Place(t) PROVE FilterInv'
    <2>1. ready' = {c \in Children : slots'[c] # <<>>}
      <3>1. PICK failed \in Verdicts, failed2 \in Verdicts :
              LET placed == t \in Children \ failed2
              IN /\ slots' = IF placed
                               THEN [Discard(failed) EXCEPT ![t] = Append(@, Current(t))]
                               ELSE Discard(failed)
                 /\ ready' = (ready \ failed) \cup (IF placed THEN {t} ELSE {})
        BY <1>2 DEF Place
      <3>2. t \in Children => Current(t) \in Children \X Nat
        BY DEF Current, TypeOK
      <3>3. Discard(failed) \in [Children -> Seq(Children \X Nat)]
        BY DEF Discard
      <3>4. ready \ failed = {c \in Children : Discard(failed)[c] # <<>>}
        BY DEF Discard
      <3>5. t \in Children => Append(Discard(failed)[t], Current(t)) # <<>>
        <4> SUFFICES ASSUME t \in Children
                     PROVE  Append(Discard(failed)[t], Current(t)) # <<>>
          OBVIOUS
        <4>1. Len(Append(Discard(failed)[t], Current(t))) = Len(Discard(failed)[t]) + 1
          BY <3>2, <3>3
        <4>2. Len(Discard(failed)[t]) \in Nat
          BY <3>3
        <4>3. Len(<<>>) = 0
          OBVIOUS
        <4>4. ASSUME Append(Discard(failed)[t], Current(t)) = <<>> PROVE FALSE
          BY ONLY <4>1, <4>2, <4>3, <4>4
        <4> QED BY <4>4
      <3>6. CASE t \in Children \ failed2
        <4>1. ready' = (ready \ failed) \cup {t}
          BY <3>1, <3>6
        <4>2. slots' = [Discard(failed) EXCEPT ![t] = Append(@, Current(t))]
          BY <3>1, <3>6
        <4>3. \A c \in Children : slots'[c] # <<>> <=> (c = t \/ Discard(failed)[c] # <<>>)
          BY <3>3, <3>5, <3>6, <4>2
        <4> QED BY <3>4, <3>6, <4>1, <4>3
      <3>7. CASE t \notin Children \ failed2
        BY <3>1, <3>4, <3>7
      <3> QED BY <3>6, <3>7
    <2>2. \A u \in Threads : pc'[u] = "place" => FALSE
      BY <1>2 DEF Place, LockInv
    <2>3. gone = {} => peers' = Children
      BY <1>2 DEF Place
    <2>4. gone = {} /\ kind = "TIMEOUT" => \A u \in Children : pc'[u] = "judge" => seen' = Children
      <3>1. \A u \in Children : pc'[u] = "judge" => u = t
        BY <1>2 DEF Place, LockInv
      <3>2. gone = {} /\ kind = "TIMEOUT" /\ t \in Children => seen' = Children
        BY <1>2 DEF Place
      <3> QED BY <3>1, <3>2
    <2>5. gone' = gone /\ kind' = kind
      BY <1>2 DEF Place, kind
    <2> QED BY <2>1, <2>2, <2>3, <2>4, <2>5
  <1>3. ASSUME NEW t \in Threads, Judge(t) PROVE FilterInv'
    <2>1. \E complete \in BOOLEAN :
             /\ slots' = [c \in Children |-> IF ~complete THEN slots[c]
                                             ELSE IF t = Det THEN <<>> ELSE Popped(c)]
             /\ ready' = {c \in ready : ~complete \/ slots'[c] # <<>>}
      BY <1>3 DEF Judge, Complete
    <2>2. ready' = {c \in Children : slots'[c] # <<>>}
      BY <2>1 DEF Popped
    <2>3. \A u \in Threads : pc'[u] \notin {"place", "judge"}
      BY <1>3 DEF Judge, LockInv
    <2> QED BY <1>3, <2>2, <2>3 DEF Judge
  <1>4. ASSUME NEW t \in Threads, Deliver(t) PROVE FilterInv'
    BY <1>4 DEF Deliver, kind
  <1>5. ASSUME NEW t \in Threads, PassThrough(t) PROVE FilterInv'
    BY <1>5 DEF PassThrough, kind
  <1>6. ASSUME NEW e \in 1..MaxElapsed, handle_Timeout(e) PROVE FilterInv'
    BY <1>6 DEF handle_Timeout, kind
  <1>7. ASSUME NEW c \in Children, ChildFailed(c) PROVE FilterInv'
    BY <1>7 DEF ChildFailed
  <1>8. CASE RemovePeer
    BY <1>8 DEF RemovePeer, LockInv
  <1> QED
    BY <1>1, <1>2, <1>3, <1>4, <1>5, <1>6, <1>7, <1>8 DEF Next, Push

\* The steps leave no complete wave in a filter.
LEMMA StepWave == ASSUME SyncInv, Next PROVE WaveInv'
  <1> SUFFICES ASSUME gone' = {} PROVE WaveInv'
    BY DEF WaveInv
  <1> USE ThreadsAssumption DEF topology, filter, SyncInv
  <1> Det \in Threads /\ Local \in Threads /\ Children \subseteq Threads
    BY DEF Threads
  <1> pc \in [Threads -> Labels] /\ slots \in [Children -> Seq(Children \X Nat)]
    BY DEF TypeOK
  <1>1. ASSUME NEW t \in Threads, Enter(t) PROVE WaveInv'
    <2>1. gone = {} /\ \A u \in Threads : pc[u] # "judge"
      BY <1>1 DEF Enter, LockInv
    <2> QED BY <1>1, <2>1 DEF Enter, WaveInv
  <1>2. ASSUME NEW t \in Threads, Place(t) PROVE WaveInv'
    <2>1. gone = {} /\ \A u \in Threads : pc[u] # "judge"
      BY <1>2 DEF Place, LockInv
    <2>2. PICK c \in Children : slots[c] = <<>>
      BY <2>1 DEF WaveInv
    <2>3. slots' = IF t \in Children THEN [slots EXCEPT ![t] = Append(@, Current(t))] ELSE slots
      BY <1>2, <2>1, PlaceWithoutFailure
    <2>4. t \in Children => Current(t) \in Children \X Nat
      BY DEF Current, TypeOK
    <2>5. Len(slots'[c]) <= 1
      BY <2>2, <2>3, <2>4
    <2>6. CASE t = Local
      <3>1. slots'[c] = <<>>
        BY <2>2, <2>3, <2>6
      <3> QED BY <1>2, <2>1, <2>6, <3>1 DEF Place, WaveInv
    <2>7. CASE t # Local
      <3>1. pc' = [pc EXCEPT ![t] = "judge"]
        BY <1>2, <2>7 DEF Place
      <3> QED BY <2>5, <3>1 DEF WaveInv
    <2> QED BY <2>6, <2>7
  <1>3. ASSUME NEW t \in Threads, Judge(t) PROVE WaveInv'
    <2> DEFINE with == IF kind = "TIMEOUT" THEN seen ELSE peers
               complete == Complete(t, with)
    <2>1. gone = {} /\ pc[t] = "judge" /\ t # Local
      BY <1>3 DEF Judge, LockInv
    <2>2. slots' = [c \in Children |-> IF ~complete THEN slots[c]
                                       ELSE IF t = Det THEN <<>> ELSE Popped(c)]
      BY <1>3 DEF Judge
    <2>3. \A u \in Threads : pc'[u] # "judge"
      BY <1>3, <2>1 DEF Judge, LockInv
    <2>4. \E c \in Children : slots'[c] = <<>>
      <3>1. CASE t = Det
        <4>1. complete
          BY <3>1 DEF Complete
        <4> QED BY <2>2, <3>1, <4>1, ChildrenAssumption
      <3>2. CASE t \in Children
        <4>2. complete <=> ready = Children
          BY <2>1, <3>2, CompleteMeansAll
        <4> HIDE DEF complete
        <4>3. CASE complete
          <5>1. PICK c \in Children : Len(slots[c]) <= 1
            BY <2>1, <3>2 DEF WaveInv
          <5>2. slots'[c] = Popped(c)
            BY <2>2, <3>2, <4>3
          <5>3. Popped(c) = <<>>
            BY <5>1 DEF Popped
          <5> QED BY <5>2, <5>3
        <4>4. CASE ~complete
          BY <2>2, <4>2, <4>4 DEF FilterInv
        <4> QED BY <4>3, <4>4
      <3> QED BY <2>1, <3>1, <3>2 DEF Threads
    <2> QED BY <2>3, <2>4 DEF WaveInv
  <1>4. ASSUME NEW t \in Threads, Deliver(t) PROVE WaveInv'
    BY <1>4 DEF Deliver, WaveInv
  <1>5. ASSUME NEW t \in Threads, PassThrough(t) PROVE WaveInv'
    BY <1>5 DEF PassThrough, Arrive, WaveInv
  <1>6. ASSUME NEW e \in 1..MaxElapsed, handle_Timeout(e) PROVE WaveInv'
    BY <1>6 DEF handle_Timeout, WaveInv
  <1>7. ASSUME NEW c \in Children, ChildFailed(c) PROVE WaveInv'
    BY <1>7 DEF ChildFailed
  <1>8. CASE RemovePeer
    BY <1>8 DEF RemovePeer, LockInv
  <1> QED
    BY <1>1, <1>2, <1>3, <1>4, <1>5, <1>6, <1>7, <1>8 DEF Next, Push

\* The steps keep a flush pending as long as the filter holds packets.
LEMMA StepTimer == ASSUME SyncInv, Next PROVE TimerInv'
  <1> USE ThreadsAssumption DEF topology, filter, SyncInv
  <1> SUFFICES ASSUME kind' = "TIMEOUT" PROVE TimerInv'
    BY DEF TimerInv
  <1> Det \in Threads /\ Local \in Threads /\ Children \subseteq Threads
    BY DEF Threads
  <1> pc \in [Threads -> Labels] /\ slots \in [Children -> Seq(Children \X Nat)]
    BY DEF TypeOK
  <1>1. ASSUME NEW t \in Threads, Enter(t) PROVE TimerInv'
    <2>1. slots' = slots /\ kind = "TIMEOUT" /\ (Pending => Pending')
      BY <1>1 DEF Enter, Pending, kind, Arrive
    <2>2. mutex \notin Children /\ active' = active
      BY <1>1 DEF Enter
    <2> QED BY <2>1, <2>2 DEF TimerInv
  <1>2. ASSUME NEW t \in Threads, Place(t) PROVE TimerInv'
    <2>1. kind = "TIMEOUT" /\ mutex = t /\ active' = active
      BY <1>2 DEF Place, kind, LockInv
    <2>2. Pending => Pending'
      BY <1>2 DEF Place, Pending
    <2>3. CASE t \in Children
      <3>1. mutex' \in Children
        BY <1>2, <2>1, <2>3 DEF Place
      <3> QED BY <2>1, <2>2, <3>1 DEF TimerInv
    <2>4. CASE t = Det
      BY <1>2, <2>1, <2>2, <2>4 DEF Place, TimerInv, Pending
    <2>5. CASE t = Local
      <3>1. \A c \in Children : slots'[c] = slots[c] \/ slots'[c] = <<>>
        BY <1>2, <2>5 DEF Place, Discard
      <3> QED BY <2>1, <2>2, <2>5, <3>1 DEF TimerInv
    <2> QED BY <2>3, <2>4, <2>5 DEF Threads
  <1>3. ASSUME NEW t \in Threads, Judge(t) PROVE TimerInv'
    <2>1. kind = "TIMEOUT" /\ mutex = t /\ t # Local
      BY <1>3 DEF Judge, kind, LockInv
    <2>2. CASE t = Det
      <3>1. Complete(Det, peers) /\ setup' = setup
        BY <1>3 DEF Complete, Judge
      <3>2. slots' = [c \in Children |-> <<>>] /\ active' = FALSE
        BY <1>3, <2>2, <3>1 DEF Judge, Complete
      <3> QED BY <3>2 DEF TimerInv
    <2>3. CASE t # Det
      <3>1. ~active => timer' # NoTimer
        BY <1>3, <2>1, <2>3, BoundsAssumption
        DEF Judge, NextTimer, register_Timeout, NoTimer
      <3>2. timer # NoTimer => timer' # NoTimer
        BY <1>3, BoundsAssumption DEF Judge, NextTimer, register_Timeout, NoTimer
      <3>3. pc'[Det] = pc[Det]
        BY <1>3, <2>3 DEF Judge
      <3>4. Pending'
        BY <2>1, <3>1, <3>2, <3>3 DEF TimerInv, Pending
      <3> QED BY <3>4 DEF TimerInv
    <2> QED BY <2>2, <2>3
  <1>4. ASSUME NEW t \in Threads, Deliver(t) PROVE TimerInv'
    <2>1. slots' = slots /\ kind = "TIMEOUT" /\ (Pending => Pending')
      BY <1>4 DEF Deliver, Pending, kind
    <2> QED BY <1>4, <2>1 DEF Deliver, TimerInv
  <1>5. ASSUME NEW t \in Threads, PassThrough(t) PROVE TimerInv'
    BY <1>5 DEF PassThrough, kind
  <1>6. ASSUME NEW e \in 1..MaxElapsed, handle_Timeout(e) PROVE TimerInv'
    <2>1. slots' = slots /\ kind = "TIMEOUT"
      BY <1>6 DEF handle_Timeout, kind
    <2>2. Pending'
      BY <1>6, BoundsAssumption DEF handle_Timeout, Pending, NoTimer, TypeOK
    <2> QED BY <2>1, <2>2 DEF TimerInv
  <1>7. ASSUME NEW c \in Children, ChildFailed(c) PROVE TimerInv'
    <2>1. slots' = slots /\ kind = "TIMEOUT" /\ (Pending => Pending')
      BY <1>7 DEF ChildFailed, Pending, kind
    <2> QED BY <1>7, <2>1 DEF ChildFailed, TimerInv
  <1>8. CASE RemovePeer
    <2>1. slots' = slots /\ kind = "TIMEOUT" /\ (Pending => Pending')
      BY <1>8 DEF RemovePeer, Pending, kind
    <2> QED BY <1>8, <2>1 DEF RemovePeer, TimerInv
  <1> QED
    BY <1>1, <1>2, <1>3, <1>4, <1>5, <1>6, <1>7, <1>8 DEF Next, Push

\* The initial state satisfies the inductive invariant.
LEMMA InitSync == ASSUME Init PROVE SyncInv
  <1>1. TypeOK
    <2>1. Nothing \in OutputSet
      BY DEF Nothing, Output, OutputSet
    <2>2. hand \in [Threads -> OutputSet] /\ pc \in [Threads -> Labels]
      BY <2>1 DEF Init, Labels
    <2>3. /\ slots \in [Children -> Seq(Children \X Nat)]
          /\ delivered \in Seq(SUBSET (Threads \X Nat))
          /\ sent \in [Children \cup {Local} -> Nat]
      BY DEF Init
    <2>4. timer \in 0..Timeout
      BY BoundsAssumption DEF Init, NoTimer
    <2> QED BY <2>2, <2>3, <2>4 DEF Init, TypeOK
  <1>2. LockInv
    BY ThreadsAssumption DEF Init, LockInv, Threads
  <1>3. FilterInv
    BY DEF Init, FilterInv, Threads
  <1>4. WaveInv
    BY ChildrenAssumption DEF Init, WaveInv, Threads
  <1>5. TimerInv
    BY DEF Init, TimerInv
  <1> QED
    BY <1>1, <1>2, <1>3, <1>4, <1>5 DEF SyncInv

\* The inductive invariant holds throughout.
LEMMA SyncInvariant == Spec => []SyncInv
  <1>1. Init => SyncInv
    BY InitSync
  <1>2. SyncInv /\ [Next]_vars => SyncInv'
    <2>1. ASSUME SyncInv, Next PROVE SyncInv'
      BY <2>1, StepType, StepLock, StepFilter, StepWave, StepTimer DEF SyncInv
    <2>2. ASSUME SyncInv, UNCHANGED vars PROVE SyncInv'
      BY <2>2
      DEF vars, topology, filter, SyncInv, TypeOK, LockInv, FilterInv, WaveInv, TimerInv,
          Pending, Held, kind
    <2> QED BY <2>1, <2>2
  <1> QED
    BY <1>1, <1>2, PTL DEF Spec

\* Every variable of the filter model keeps its type.
THEOREM TypeCorrect == Spec => []TypeOK
  BY SyncInvariant, PTL DEF SyncInv

\* For any number of children: although a call takes out at most one wave, and nobody looks
\* at the filter between calls, no complete wave is left in it until a child fails.
THEOREM NoWaveLeftTheorem == Spec => []NoWaveLeft
  <1>1. SyncInv => NoWaveLeft
    BY ThreadsAssumption DEF SyncInv, NoWaveLeft, WaveInv, LockInv
  <1> QED
    BY <1>1, SyncInvariant, PTL

\* For any number of children, failures and timeouts: a TimeOut filter that holds packets
\* has a timer that will release them.
THEOREM HeldHasTimerTheorem == Spec => []HeldHasTimer
  <1>1. Held # {} => \E c \in Children : slots[c] # <<>>
    BY DEF Held
  <1>2. SyncInv => HeldHasTimer
    BY <1>1, ThreadsAssumption
    DEF SyncInv, HeldHasTimer, TimerInv, LockInv, Pending, Threads
  <1> QED
    BY <1>2, SyncInvariant, PTL
------------------------------------------------------------------------------
\* After k waves the slot of every child starts with its packet k + 1 and goes on without
\* a gap to the last one placed.
Aligned(k) ==
  \A c \in Children :
    /\ sent[c] = k + Len(slots[c]) + (IF pc[c] = "place" THEN 1 ELSE 0)
    /\ \A i \in 1..Len(slots[c]) : slots[c][i] = <<c, k + i>>

\* An output of a WaitForAll filter without failures.
Good(o) == o \in {{}, {<<Local, 1>>}} \/ \E n \in 1..MaxPackets : o = Wave(n)

CountInv ==
  /\ \A c \in Children : sent[c] <= MaxPackets
  /\ sent[Local] <= 1
  /\ pc[Local] = "place" => sent[Local] = 1
  /\ kind = "WAITFORALL" /\ gone = {} =>
       /\ \E k \in Nat : Aligned(k)
       /\ \A t \in Threads : Good(hand[t].packets)
       /\ \A i \in DOMAIN delivered : Good(delivered[i])

\* A Judge step of a child's thread takes out the next wave or nothing.
LEMMA JudgeAligned ==
  ASSUME SyncInv, gone = {}, kind = "WAITFORALL", NEW t \in Children, Judge(t),
         \A c \in Children : sent[c] <= MaxPackets, NEW k \in Nat, Aligned(k)
  PROVE  (\E m \in Nat : Aligned(m)') /\ Good(hand'[t].packets)
  <1> USE ThreadsAssumption DEF SyncInv
  <1> DEFINE with == IF kind = "TIMEOUT" THEN seen ELSE peers
             complete == Complete(t, with)
             out == IF ~complete THEN {} ELSE IF t = Det THEN Held ELSE Heads
  <1>1. t # Det /\ t \in Threads /\ Children \subseteq Threads
    BY DEF Threads
  <1>2. /\ slots' = [c \in Children |-> IF ~complete THEN slots[c] ELSE Popped(c)]
        /\ sent' = sent
        /\ hand' = [hand EXCEPT ![t] = IF out = {} THEN Nothing ELSE Output(out, with, TRUE)]
        /\ pc' = [pc EXCEPT ![t] = IF out = {} THEN "idle" ELSE "deliver"]
        /\ pc[t] = "judge"
    BY <1>1 DEF Judge
  <1>3. complete <=> ready = Children
    BY <1>2, CompleteMeansAll
  <1>4. \A c \in Children : (pc'[c] = "place") <=> (pc[c] = "place")
    BY <1>1, <1>2 DEF TypeOK
  <1>5. hand'[t].packets = out
    <2>1. hand'[t] = IF out = {} THEN Nothing ELSE Output(out, with, TRUE)
      BY <1>1, <1>2 DEF TypeOK
    <2> QED BY <2>1 DEF Nothing, Output
  <1> HIDE DEF complete
  <1>6. CASE complete
    <2>1. ASSUME NEW c \in Children
          PROVE  /\ slots[c] \in Seq(Children \X Nat) /\ slots[c] # <<>>
                 /\ slots'[c] = Tail(slots[c])
      <3>1. slots[c] \in Seq(Children \X Nat)
        BY <2>1 DEF TypeOK
      <3>2. slots[c] # <<>>
        BY <1>3, <1>6, <2>1 DEF FilterInv
      <3>3. slots'[c] = Popped(c)
        BY <1>2, <1>6, <2>1
      <3> QED BY <3>1, <3>2, <3>3 DEF Popped
    <2>2. ASSUME NEW c \in Children
          PROVE  /\ Len(slots[c]) \in Nat /\ Len(slots[c]) >= 1
                 /\ Len(slots'[c]) = Len(slots[c]) - 1
                 /\ \A i \in 1..Len(slots'[c]) : slots'[c][i] = slots[c][i + 1]
      <3>1. slots[c] \in Seq(Children \X Nat) /\ slots[c] # <<>>
        BY <2>1, <2>2
      <3>2. slots'[c] = Tail(slots[c])
        BY <2>1, <2>2
      <3> HIDE DEF SyncInv
      <3> QED BY ONLY <3>1, <3>2
    <2>3. Heads = Wave(k + 1)
      <3>1. ASSUME NEW c \in Children PROVE Head(slots[c]) = <<c, k + 1>>
        <4>1. 1 \in 1..Len(slots[c])
          BY <2>2, <3>1
        <4>2. slots[c][1] = <<c, k + 1>>
          BY <3>1, <4>1 DEF Aligned
        <4>3. Head(slots[c]) = slots[c][1]
          BY <2>1, <3>1
        <4> QED BY <4>2, <4>3
      <3>2. {d \in Children : slots[d] # <<>>} = Children
        BY <2>1
      <3> QED BY <3>1, <3>2 DEF Heads, Wave
    <2>4. ASSUME NEW c \in Children
          PROVE  /\ sent[c] \in Nat
                 /\ sent[c] = k + Len(slots[c]) + (IF pc[c] = "place" THEN 1 ELSE 0)
      BY <2>4 DEF Aligned, TypeOK
    <2>5. k + 1 \in 1..MaxPackets
      <3>1. PICK c \in Children : TRUE
        BY ChildrenAssumption
      <3>2. /\ sent[c] \in Nat /\ sent[c] <= MaxPackets
            /\ \E b \in {0, 1} : sent[c] = k + Len(slots[c]) + b
        BY <2>4, <3>1
      <3>3. Len(slots[c]) \in Nat /\ Len(slots[c]) >= 1
        BY <2>2, <3>1
      <3> QED BY ONLY <3>2, <3>3, k \in Nat, BoundsAssumption
    <2>6. Aligned(k + 1)'
      <3> SUFFICES ASSUME NEW c \in Children
                   PROVE  /\ sent'[c] = (k + 1) + Len(slots'[c])
                                         + (IF pc'[c] = "place" THEN 1 ELSE 0)
                          /\ \A i \in 1..Len(slots'[c]) : slots'[c][i] = <<c, (k + 1) + i>>
        BY DEF Aligned
      <3>1. ASSUME NEW i \in 1..Len(slots'[c]) PROVE slots'[c][i] = <<c, (k + 1) + i>>
        <4>1. slots'[c][i] = slots[c][i + 1] /\ i + 1 \in 1..Len(slots[c])
          BY <2>2, <3>1
        <4>2. slots[c][i + 1] = <<c, k + (i + 1)>>
          BY <4>1 DEF Aligned
        <4>3. k + (i + 1) = (k + 1) + i
          BY <2>2, <3>1
        <4> QED BY <4>1, <4>2, <4>3
      <3>2. sent'[c] = (k + 1) + Len(slots'[c]) + (IF pc'[c] = "place" THEN 1 ELSE 0)
        <4>1. /\ sent'[c] = k + Len(slots[c]) + (IF pc[c] = "place" THEN 1 ELSE 0)
              /\ Len(slots'[c]) = Len(slots[c]) - 1 /\ Len(slots[c]) \in Nat
              /\ (pc'[c] = "place") <=> (pc[c] = "place")
          BY <1>2, <1>4, <2>2, <2>4
        <4> DEFINE b == IF pc[c] = "place" THEN 1 ELSE 0
        <4>2. b \in {0, 1} /\ b = IF pc'[c] = "place" THEN 1 ELSE 0
          BY <4>1
        <4> HIDE DEF b
        <4>3. sent'[c] = k + Len(slots[c]) + b
          BY <4>1 DEF b
        <4>4. sent'[c] = (k + 1) + Len(slots'[c]) + b
          <5>1. \A m \in Nat, x \in {0, 1} : k + m + x = (k + 1) + (m - 1) + x
            OBVIOUS
          <5>2. Len(slots[c]) \in Nat /\ Len(slots'[c]) = Len(slots[c]) - 1
            BY <4>1
          <5> QED BY ONLY <4>2, <4>3, <5>1, <5>2
        <4> QED BY <4>2, <4>4
      <3> QED BY <3>1, <3>2
    <2> QED BY <1>1, <1>5, <1>6, <2>3, <2>5, <2>6 DEF Good
  <1>7. CASE ~complete
    <2>1. slots' = slots
      BY <1>2, <1>7 DEF TypeOK
    <2>2. Aligned(k)'
      BY <1>2, <1>4, <2>1 DEF Aligned
    <2> QED BY <1>5, <1>7, <2>2 DEF Good
  <1> QED BY <1>6, <1>7

\* The steps keep the waves aligned.
LEMMA StepCount == ASSUME SyncInv, CountInv, Next PROVE CountInv'
  <1> USE ThreadsAssumption DEF topology, filter, SyncInv
  <1> Det \in Threads /\ Local \in Threads /\ Children \subseteq Threads
    BY DEF Threads
  <1> /\ pc \in [Threads -> Labels] /\ slots \in [Children -> Seq(Children \X Nat)]
      /\ hand \in [Threads -> OutputSet] /\ sent \in [Children \cup {Local} -> Nat]
      /\ delivered \in Seq(SUBSET (Threads \X Nat))
    BY DEF TypeOK
  <1>1. ASSUME NEW t \in Threads, Enter(t) PROVE CountInv'
    <2>1. CASE t = Det
      <3>1. sent' = sent /\ \A u \in Threads : u # Det => pc'[u] = pc[u]
        BY <1>1, <2>1 DEF Enter, Arrive
      <3>2. ASSUME NEW k \in Nat, Aligned(k), gone = {} PROVE Aligned(k)'
        BY <1>1, <3>1, <3>2 DEF Enter, Aligned
      <3> QED BY <1>1, <3>1, <3>2 DEF Enter, CountInv, kind
    <2>2. CASE t # Det
      <3>1. /\ pc[t] = "idle" /\ sent' = [sent EXCEPT ![t] = sent[t] + 1]
            /\ sent[t] < (IF t = Local THEN 1 ELSE MaxPackets)
            /\ t \in Children \cup {Local}
        BY <1>1, <2>2 DEF Enter, Arrive, Threads
      <3>2. /\ \A c \in Children : sent'[c] <= MaxPackets
            /\ sent'[Local] <= 1
        BY <3>1, BoundsAssumption DEF CountInv
      <3>3. pc'[Local] = "place" => sent'[Local] = 1
        BY <1>1, <3>1 DEF Enter, CountInv
      <3>4. ASSUME NEW k \in Nat, Aligned(k) PROVE Aligned(k)'
        <4> SUFFICES ASSUME NEW c \in Children
                     PROVE  sent'[c] = k + Len(slots[c]) + (IF pc'[c] = "place" THEN 1 ELSE 0)
          BY <1>1, <3>4 DEF Enter, Aligned
        <4>1. sent[c] = k + Len(slots[c]) + (IF pc[c] = "place" THEN 1 ELSE 0)
          BY <3>4 DEF Aligned
        <4>2. CASE c = t
          <5>1. pc'[c] = "place" /\ sent'[c] = sent[c] + 1 /\ sent[c] = k + Len(slots[c]) + 0
            BY <1>1, <3>1, <4>1, <4>2 DEF Enter
          <5>2. Len(slots[c]) \in Nat
            OBVIOUS
          <5> QED BY <5>1, <5>2
        <4>3. CASE c # t
          BY <1>1, <3>1, <4>1, <4>3 DEF Enter
        <4> QED BY <4>2, <4>3
      <3> QED BY <1>1, <3>2, <3>3, <3>4 DEF Enter, CountInv, kind
    <2> QED BY <2>1, <2>2
  <1>2. ASSUME NEW t \in Threads, Place(t) PROVE CountInv'
    <2>1. /\ pc[t] = "place" /\ UNCHANGED <<setup, gone, sent, delivered>>
          /\ \A u \in Threads : u # t => pc'[u] = pc[u] /\ hand'[u] = hand[u]
          /\ pc'[t] # "place"
      BY <1>2 DEF Place
    <2>2. ASSUME gone = {}, NEW k \in Nat, Aligned(k) PROVE Aligned(k)'
      <3>1. slots' = IF t \in Children THEN [slots EXCEPT ![t] = Append(@, Current(t))]
                                       ELSE slots
        BY <1>2, <2>2, PlaceWithoutFailure
      <3> SUFFICES ASSUME NEW c \in Children
                   PROVE  /\ sent'[c] = k + Len(slots'[c])
                                         + (IF pc'[c] = "place" THEN 1 ELSE 0)
                          /\ \A i \in 1..Len(slots'[c]) : slots'[c][i] = <<c, k + i>>
        BY DEF Aligned
      <3>2. /\ sent[c] = k + Len(slots[c]) + (IF pc[c] = "place" THEN 1 ELSE 0)
            /\ \A i \in 1..Len(slots[c]) : slots[c][i] = <<c, k + i>>
        BY <2>2 DEF Aligned
      <3>3. CASE c = t
        <4>1. slots'[c] = Append(slots[c], Current(c)) /\ Current(c) = <<c, sent[c]>>
          BY <3>1, <3>3 DEF Current
        <4>2. sent[c] = k + Len(slots[c]) + 1 /\ sent'[c] = sent[c] /\ pc'[c] # "place"
          BY <2>1, <3>2, <3>3
        <4>3. slots[c] \in Seq(Children \X Nat) /\ Current(c) \in Children \X Nat
          BY <4>1
        <4>4. /\ Len(slots'[c]) = Len(slots[c]) + 1 /\ Len(slots[c]) \in Nat
              /\ \A i \in 1..Len(slots[c]) : slots'[c][i] = slots[c][i]
              /\ slots'[c][Len(slots[c]) + 1] = Current(c)
          BY ONLY <4>1, <4>3
        <4>5. ASSUME NEW i \in 1..Len(slots'[c]) PROVE slots'[c][i] = <<c, k + i>>
          <5>1. CASE i \in 1..Len(slots[c])
            BY <3>2, <4>4, <5>1
          <5>2. CASE i = Len(slots[c]) + 1
            <6>1. k + i = sent[c]
              BY <4>2, <4>4, <5>2
            <6> QED BY <4>1, <4>4, <5>2, <6>1
          <5>3. i \in 1..Len(slots[c]) \/ i = Len(slots[c]) + 1
            BY ONLY <4>4, <4>5
          <5> QED BY ONLY <5>1, <5>2, <5>3
        <4>6. sent'[c] = k + Len(slots'[c]) + 0
          BY <4>2, <4>4
        <4> QED BY <4>2, <4>5, <4>6
      <3>4. CASE c # t
        BY <2>1, <3>1, <3>2, <3>4
      <3> QED BY <3>3, <3>4
    <2>3. CASE t = Local
      <3>1. sent[Local] = 1
        BY <2>1, <2>3 DEF CountInv
      <3>2. hand'[t].packets = {<<Local, 1>>}
        BY <1>2, <2>3, <3>1 DEF Place, Output, Current
      <3>3. Good(hand'[t].packets)
        BY <3>2 DEF Good
      <3> QED BY <2>1, <2>2, <2>3, <3>3 DEF CountInv, kind
    <2>4. CASE t # Local
      <3>1. hand' = hand
        BY <1>2, <2>4 DEF Place
      <3> QED BY <2>1, <2>2, <2>4, <3>1 DEF CountInv, kind
    <2> QED BY <2>3, <2>4
  <1>3. ASSUME NEW t \in Threads, Judge(t) PROVE CountInv'
    <2>1. /\ pc[t] = "judge" /\ UNCHANGED <<setup, gone, sent, delivered>>
          /\ \A u \in Threads : u # t => pc'[u] = pc[u] /\ hand'[u] = hand[u]
          /\ t # Local
      BY <1>3 DEF Judge, LockInv
    <2>2. CASE kind = "WAITFORALL" /\ gone = {}
      <3>1. t \in Children
        BY <2>1, <2>2 DEF LockInv, Threads
      <3>2. PICK k \in Nat : Aligned(k)
        BY <2>2 DEF CountInv
      <3>3. (\E m \in Nat : Aligned(m)') /\ Good(hand'[t].packets)
        <4>1. \A c \in Children : sent[c] <= MaxPackets
          BY DEF CountInv
        <4> QED BY <1>3, <2>2, <3>1, <3>2, <4>1, JudgeAligned
      <3>4. \A u \in Threads : Good(hand'[u].packets)
        BY <2>1, <2>2, <3>3 DEF CountInv
      <3> QED BY <2>1, <2>2, <3>3, <3>4 DEF CountInv, kind
    <2>3. CASE ~(kind = "WAITFORALL" /\ gone = {})
      BY <2>1, <2>3 DEF CountInv, kind
    <2> QED BY <2>2, <2>3
  <1>4. ASSUME NEW t \in Threads, Deliver(t) PROVE CountInv'
    <2>1. /\ UNCHANGED <<setup, gone, sent, slots>>
          /\ \A u \in Threads : (pc'[u] = "place") <=> (pc[u] = "place")
          /\ delivered' = Append(delivered, hand[t].packets)
          /\ \A u \in Threads : hand'[u] \in {hand[u], Nothing}
      BY <1>4 DEF Deliver
    <2>2. Good({}) /\ Nothing.packets = {}
      BY DEF Good, Nothing, Output
    <2>3. ASSUME NEW k \in Nat, Aligned(k) PROVE Aligned(k)'
      BY <2>1, <2>3 DEF Aligned
    <2>4. hand[t].packets \in SUBSET (Threads \X Nat)
      BY DEF OutputSet
    <2>5. \A i \in DOMAIN delivered' : \/ i \in DOMAIN delivered /\ delivered'[i] = delivered[i]
                                       \/ delivered'[i] = hand[t].packets
      BY <2>1, <2>4
    <2> QED BY <2>1, <2>2, <2>3, <2>5 DEF CountInv, kind
  <1>5. ASSUME NEW t \in Threads, PassThrough(t) PROVE CountInv'
    <2>1. /\ kind' = "DONTWAIT" /\ pc' = [pc EXCEPT ![t] = "deliver"]
          /\ sent' = [sent EXCEPT ![t] = sent[t] + 1]
          /\ sent[t] < (IF t = Local THEN 1 ELSE MaxPackets)
          /\ t \in Children \cup {Local}
      BY <1>5 DEF PassThrough, Arrive, kind, Threads
    <2>2. /\ \A c \in Children : sent'[c] <= MaxPackets
          /\ sent'[Local] <= 1
      BY <2>1, BoundsAssumption DEF CountInv
    <2>3. pc'[Local] = "place" => sent'[Local] = 1
      BY <2>1 DEF CountInv
    <2> QED BY <2>1, <2>2, <2>3 DEF CountInv
  <1>6. ASSUME NEW e \in 1..MaxElapsed, handle_Timeout(e) PROVE CountInv'
    <2>1. /\ UNCHANGED <<setup, gone, sent, slots, hand, delivered>>
          /\ \A u \in Threads : (pc'[u] = "place") <=> (pc[u] = "place")
      BY <1>6 DEF handle_Timeout
    <2>2. ASSUME NEW k \in Nat, Aligned(k) PROVE Aligned(k)'
      BY <2>1, <2>2 DEF Aligned
    <2> QED BY <2>1, <2>2 DEF CountInv, kind
  <1>7. ASSUME NEW c \in Children, ChildFailed(c) PROVE CountInv'
    BY <1>7 DEF ChildFailed, CountInv
  <1>8. CASE RemovePeer
    BY <1>8 DEF RemovePeer, LockInv, CountInv
  <1> QED
    BY <1>1, <1>2, <1>3, <1>4, <1>5, <1>6, <1>7, <1>8 DEF Next, Push

\* Until a child fails the waves are aligned, in every behaviour.
LEMMA CountInvariant == Spec => []CountInv
  <1>1. Init => CountInv
    <2> SUFFICES ASSUME Init PROVE CountInv
      OBVIOUS
    <2>1. Aligned(0)
      BY DEF Init, Aligned, Threads
    <2>2. \A t \in Threads : Good(hand[t].packets)
      BY DEF Init, Good, Nothing, Output
    <2> QED BY <2>1, <2>2, BoundsAssumption, ThreadsAssumption DEF Init, CountInv, Threads
  <1>2. SyncInv /\ CountInv /\ [Next]_vars => CountInv'
    <2>1. ASSUME UNCHANGED vars, CountInv PROVE CountInv'
      BY <2>1 DEF vars, topology, filter, CountInv, Aligned, Good, Wave, kind
    <2> QED BY <2>1, StepCount
  <1> QED
    BY <1>1, <1>2, SyncInvariant, PTL DEF Spec

\* For any number of children and packets: until a child fails, every packet that a
\* WaitForAll stream sends on reduces the n-th packet of every child, for one n.
THEOREM WaveAlignedTheorem == Spec => []WaveAligned
  <1>1. CountInv => WaveAligned
    BY DEF CountInv, WaveAligned, Good, Outputs
  <1> QED
    BY <1>1, CountInvariant, PTL

------------------------------------------------------------------------------
\* The filter has been given the n-th packet of c.
Given(c, n) == n \in 1..sent[c] /\ (pc[c] = "place" => n < sent[c])

\* The wave o may have a packet of c in it only if all of c's packets in the filter are later.
Earlier(o) ==
  \A c \in Children, n \in Nat : <<c, n>> \in o =>
    Given(c, n) /\ \A i \in DOMAIN slots[c] : n < slots[c][i][2]

\* What a filter call may rely on: the thread has sent on what it got before, and the ranks
\* that a call looked up are all that have not failed.
CallInv ==
  /\ \A t \in Threads : pc[t] # "deliver" => hand[t] = Nothing
  /\ \A c \in Children : pc[c] = "place" => sent[c] >= 1
  /\ \A t \in Threads : pc[t] = "place" => Children \ gone \subseteq seen
  /\ kind = "DONTWAIT" => mutex = NoOne /\ \A c \in Children : slots[c] = <<>>

\* A slot holds packets of its own rank, each once and in the order in which they came.
SlotInv ==
  \A c \in Children : \A i \in DOMAIN slots[c] :
    /\ slots[c][i][1] = c /\ Given(c, slots[c][i][2]) /\ i <= slots[c][i][2]
    /\ \A j \in DOMAIN slots[c] : i < j => slots[c][i][2] < slots[c][j][2]

\* A packet that left the filter left it before those that are still there, and once.
OutInv ==
  /\ \A t \in Threads : Earlier(hand[t].packets)
  /\ \A i \in DOMAIN delivered : Earlier(delivered[i])
  /\ \A c \in Children, n \in Nat :
       /\ \A t, u \in Threads :
            <<c, n>> \in hand[t].packets /\ <<c, n>> \in hand[u].packets => t = u
       /\ \A i, j \in DOMAIN delivered : <<c, n>> \in delivered[i] /\ <<c, n>> \in delivered[j] => i = j
       /\ \A t \in Threads, i \in DOMAIN delivered :
            ~(<<c, n>> \in hand[t].packets /\ <<c, n>> \in delivered[i])

\* A packet of a child that has not failed is somewhere.
Somewhere(c, n) ==
  \/ \E i \in DOMAIN slots[c] : slots[c][i] = <<c, n>>
  \/ \E t \in Threads : <<c, n>> \in hand[t].packets
  \/ \E i \in DOMAIN delivered : <<c, n>> \in delivered[i]
KeptInv == \A c \in Children \ gone, n \in Nat : Given(c, n) => Somewhere(c, n)

\* No packet comes from the event-detection thread.
SendersInv ==
  /\ \A t \in Threads : \A p \in hand[t].packets : p[1] # Det
  /\ \A i \in DOMAIN delivered : \A p \in delivered[i] : p[1] # Det

OnceInv == CallInv /\ SlotInv /\ OutInv /\ KeptInv /\ SendersInv


------------------------------------------------------------------------------
\* What is known of the slots and outputs as sequences and sets.
LEMMA Shapes ==
  ASSUME TypeOK
  PROVE  /\ \A c \in Children : /\ slots[c] \in Seq(Children \X Nat) /\ Len(slots[c]) \in Nat
                                /\ DOMAIN slots[c] = 1..Len(slots[c])
                                /\ \A i \in DOMAIN slots[c] : slots[c][i] \in Children \X Nat
         /\ \A c \in Children : sent[c] \in Nat
         /\ DOMAIN delivered = 1..Len(delivered) /\ Len(delivered) \in Nat
         /\ Children \subseteq Threads /\ Det \in Threads /\ Local \in Threads
         /\ Nothing.packets = {}
  BY DEF TypeOK, Threads, Nothing, Output

\* A step that gives the filter no packet and takes none keeps the account of the packets.
LEMMA NothingMoves ==
  ASSUME OnceInv, UNCHANGED <<slots, hand, delivered>>, gone \subseteq gone',
         \A c \in Children, n \in Nat : Given(c, n)' <=> Given(c, n), TypeOK
  PROVE  SlotInv' /\ OutInv' /\ KeptInv' /\ SendersInv'
  <1> USE DEF OnceInv
  <1>1. SlotInv'
    <2>1. \A c \in Children : \A i \in DOMAIN slots[c] : slots[c][i][2] \in Nat
      BY Shapes
    <2> QED BY <2>1 DEF SlotInv
  <1>2. \A o : Earlier(o) => Earlier(o)'
    BY DEF Earlier
  <1>3. OutInv'
    BY <1>2 DEF OutInv
  <1>4. KeptInv'
    BY DEF KeptInv, Somewhere
  <1>5. SendersInv'
    BY DEF SendersInv
  <1> QED BY <1>1, <1>3, <1>4, <1>5

\* A step after which the threads in calls are the same, and the numbers too, gives none.
LEMMA SameGiven ==
  ASSUME TypeOK, sent' = sent, \A c \in Children : (pc'[c] = "place") <=> (pc[c] = "place")
  PROVE  \A c \in Children, n \in Nat : Given(c, n)' <=> Given(c, n)
  BY DEF Given

\* What placing does to the slot of c: it may be emptied, of a failed child only, and the
\* packet goes to its end, if its child has not failed.
LEMMA PlaceEffect ==
  ASSUME SyncInv, OnceInv, NEW t \in Threads, Place(t), NEW c \in Children
  PROVE  \E b \in {slots[c], <<>>} :
           /\ c \notin gone => b = slots[c]
           /\ \/ slots'[c] = b /\ (c = t => c \in gone)
              \/ slots'[c] = Append(b, <<c, sent[c]>>) /\ c = t
  <1>1. pc[t] = "place"
    BY DEF Place
  <1>2. Children \ gone \subseteq seen
    BY <1>1 DEF OnceInv, CallInv
  <1>3. \A f \in Verdicts : f \cap Children \subseteq gone
    BY <1>2 DEF Verdicts, Missing
  <1>4. PICK failed \in Verdicts, failed2 \in Verdicts :
          slots' = IF t \in Children \ failed2
                     THEN [Discard(failed) EXCEPT ![t] = Append(@, Current(t))]
                     ELSE Discard(failed)
    BY DEF Place
  <1> DEFINE b == Discard(failed)[c]
  <1>5. b \in {slots[c], <<>>} /\ (c \notin gone => b = slots[c])
    BY <1>3 DEF Discard
  <1>6. CASE c = t /\ t \notin failed2
    <2>1. slots'[c] = Append(b, Current(t))
      BY <1>4, <1>6 DEF Discard
    <2> QED BY <1>5, <1>6, <2>1 DEF Current
  <1>7. CASE ~(c = t /\ t \notin failed2)
    <2>1. slots'[c] = b
      BY <1>4, <1>7 DEF Discard
    <2>2. c = t => c \in gone
      BY <1>3, <1>7
    <2> QED BY <1>5, <2>1, <2>2
  <1> QED BY <1>6, <1>7

\* What a judgement does to the slot of c: its first d packets go out and the rest stay.
LEMMA JudgeEffect ==
  ASSUME SyncInv, OnceInv, NEW t \in Threads, Judge(t), NEW c \in Children
  PROVE  \E d \in 0..Len(slots[c]) :
           /\ slots'[c] \in Seq(Children \X Nat) /\ Len(slots'[c]) = Len(slots[c]) - d
           /\ \A i \in 1..Len(slots'[c]) : slots'[c][i] = slots[c][i + d]
           /\ \A n \in Nat : <<c, n>> \in hand'[t].packets <=> \E i \in 1..d : slots[c][i] = <<c, n>>
  <1> USE DEF SyncInv
  <1> DEFINE with == IF kind = "TIMEOUT" THEN seen ELSE peers
             complete == Complete(t, with)
             out == IF ~complete THEN {} ELSE IF t = Det THEN Held ELSE Heads
  <1>1. slots'[c] = IF ~complete THEN slots[c] ELSE IF t = Det THEN <<>> ELSE Popped(c)
    BY DEF Judge
  <1>2. hand'[t].packets = out
    <2>1. hand'[t] = IF out = {} THEN Nothing ELSE Output(out, with, t # Det)
      BY DEF Judge, TypeOK
    <2> QED BY <2>1 DEF Nothing, Output
  <1>3. /\ slots[c] \in Seq(Children \X Nat) /\ Len(slots[c]) \in Nat
        /\ \A e \in Children : DOMAIN slots[e] = 1..Len(slots[e])
    BY Shapes
  <1>4. ASSUME NEW e \in Children, NEW i \in DOMAIN slots[e] PROVE slots[e][i][1] = e
    BY <1>4 DEF OnceInv, SlotInv
  <1> HIDE DEF complete
  <1>5. CASE ~complete
    BY <1>1, <1>2, <1>3, <1>5
  <1>6. CASE complete /\ t = Det
    <2>1. slots'[c] = <<>>
      BY <1>1, <1>6
    <2>2. ASSUME NEW n \in Nat PROVE <<c, n>> \in Held <=> \E i \in 1..Len(slots[c]) : slots[c][i] = <<c, n>>
      <3>1. ASSUME NEW e \in Children, NEW i \in DOMAIN slots[e], slots[e][i] = <<c, n>> PROVE e = c
        BY <1>4, <3>1
      <3>2. <<c, n>> \in Held <=> \E e \in Children : \E i \in DOMAIN slots[e] : slots[e][i] = <<c, n>>
        BY DEF Held
      <3>3. DOMAIN slots[c] = 1..Len(slots[c])
        BY <1>3
      <3> QED BY <3>1, <3>2, <3>3
    <2>3. /\ slots'[c] \in Seq(Children \X Nat) /\ Len(slots'[c]) = Len(slots[c]) - Len(slots[c])
          /\ \A i \in 1..Len(slots'[c]) : slots'[c][i] = slots[c][i + Len(slots[c])]
          /\ Len(slots[c]) \in 0..Len(slots[c])
      BY <1>3, <2>1
    <2>4. hand'[t].packets = Held
      BY <1>2, <1>6
    <2> QED BY <2>2, <2>3, <2>4
  <1>7. CASE complete /\ t # Det
    <2>1. ASSUME NEW n \in Nat PROVE <<c, n>> \in Heads <=> slots[c] # <<>> /\ slots[c][1] = <<c, n>>
      <3>1. ASSUME NEW e \in Children, slots[e] # <<>> PROVE Head(slots[e]) = slots[e][1] /\ slots[e][1][1] = e
        <4>1. slots[e] \in Seq(Children \X Nat)
          BY Shapes
        <4>2. 1 \in DOMAIN slots[e]
          BY <3>1, <4>1
        <4> QED BY <1>4, <3>1, <4>1, <4>2
      <3> QED BY <3>1 DEF Heads
    <2>2. CASE slots[c] = <<>>
      <3>1. slots'[c] = slots[c] /\ Len(slots[c]) = 0
        BY <1>1, <1>7, <2>2 DEF Popped
      <3> QED BY <1>2, <1>3, <1>7, <2>1, <2>2, <3>1
    <2>3. CASE slots[c] # <<>>
      <3>1. slots'[c] = Tail(slots[c])
        BY <1>1, <1>7, <2>3 DEF Popped
      <3>2. /\ slots'[c] \in Seq(Children \X Nat) /\ Len(slots'[c]) = Len(slots[c]) - 1
            /\ \A i \in 1..Len(slots'[c]) : slots'[c][i] = slots[c][i + 1]
            /\ 1 \in 0..Len(slots[c])
        BY <1>3, <2>3, <3>1
      <3>3. \A n \in Nat : <<c, n>> \in hand'[t].packets <=> \E i \in 1..1 : slots[c][i] = <<c, n>>
        BY <1>2, <1>7, <2>1, <2>3
      <3> QED BY <3>2, <3>3
    <2> QED BY <2>2, <2>3
  <1> QED BY <1>5, <1>6, <1>7


\* The steps keep what a filter call relies on.
LEMMA StepCall == ASSUME SyncInv, OnceInv, Next PROVE CallInv'
  <1> USE ThreadsAssumption DEF topology, filter, SyncInv, OnceInv
  <1> /\ pc \in [Threads -> Labels] /\ hand \in [Threads -> OutputSet]
      /\ sent \in [Children \cup {Local} -> Nat] /\ setup \in Setups
    BY DEF TypeOK
  <1> Children \subseteq Threads /\ Det \in Threads /\ Local \in Threads
    BY Shapes
  <1>1. ASSUME NEW t \in Threads, Enter(t) PROVE CallInv'
    <2>1. kind # "DONTWAIT" /\ kind' = kind
      BY <1>1 DEF Enter, LockInv, kind
    <2>2. \A c \in Children : pc'[c] = "place" => sent'[c] >= 1
      <3>1. CASE Arrive(t)
        <4>1. t \in Children \cup {Local}
          BY <3>1 DEF Arrive, Threads
        <4> QED BY <1>1, <3>1, <4>1 DEF Enter, Arrive, CallInv
      <3>2. CASE t = Det /\ UNCHANGED sent
        BY <1>1, <3>2 DEF Enter, CallInv
      <3> QED BY <1>1, <3>1, <3>2 DEF Enter
    <2>3. \A u \in Threads : pc'[u] # "deliver" => hand'[u] = Nothing
      BY <1>1 DEF Enter, CallInv, Arrive
    <2>4. \A u \in Threads : pc'[u] = "place" => Children \ gone' \subseteq seen'
      BY <1>1 DEF Enter
    <2> QED BY <2>1, <2>2, <2>3, <2>4 DEF CallInv
  <1>2. ASSUME NEW t \in Threads, Place(t) PROVE CallInv'
    <2>1. kind # "DONTWAIT" /\ kind' = kind /\ sent' = sent
      BY <1>2 DEF Place, LockInv, kind, CallInv
    <2>2. \A u \in Threads : pc'[u] # "place"
      BY <1>2 DEF Place, LockInv
    <2>3. \A u \in Threads : pc'[u] # "deliver" => hand'[u] = Nothing
      BY <1>2 DEF Place, CallInv
    <2> QED BY <2>1, <2>2, <2>3 DEF CallInv
  <1>3. ASSUME NEW t \in Threads, Judge(t) PROVE CallInv'
    <2>1. kind # "DONTWAIT" /\ kind' = kind /\ sent' = sent
      BY <1>3 DEF Judge, LockInv, kind, CallInv
    <2>2. \A u \in Threads : pc'[u] # "place"
      BY <1>3 DEF Judge, LockInv
    <2>3. \A u \in Threads : pc'[u] # "deliver" => hand'[u] = Nothing
      BY <1>3 DEF Judge, CallInv
    <2> QED BY <2>1, <2>2, <2>3 DEF CallInv
  <1>4. ASSUME NEW t \in Threads, Deliver(t) PROVE CallInv'
    BY <1>4 DEF Deliver, CallInv, kind
  <1>5. ASSUME NEW t \in Threads, PassThrough(t) PROVE CallInv'
    <2>1. /\ pc' = [pc EXCEPT ![t] = "deliver"] /\ \A u \in Threads : u # t => hand'[u] = hand[u]
          /\ UNCHANGED <<setup, gone, slots, mutex, seen>>
      BY <1>5 DEF PassThrough
    <2>2. \A c \in Children : pc'[c] = "place" => sent'[c] >= 1
      BY <1>5, <2>1 DEF PassThrough, Arrive, CallInv
    <2> QED BY <2>1, <2>2 DEF CallInv, kind
  <1>6. ASSUME NEW e \in 1..MaxElapsed, handle_Timeout(e) PROVE CallInv'
    <2>1. \A u \in Threads : /\ (pc'[u] = "place") <=> (pc[u] = "place")
                             /\ (pc'[u] = "deliver") <=> (pc[u] = "deliver")
      BY <1>6 DEF handle_Timeout
    <2> QED BY <1>6, <2>1 DEF handle_Timeout, CallInv, kind
  <1>7. ASSUME NEW c \in Children, ChildFailed(c) PROVE CallInv'
    BY <1>7 DEF ChildFailed, CallInv, kind
  <1>8. CASE RemovePeer
    BY <1>8 DEF RemovePeer, CallInv, kind
  <1> QED
    BY <1>1, <1>2, <1>3, <1>4, <1>5, <1>6, <1>7, <1>8 DEF Next, Push

\* Placing a packet keeps the account of the packets.
LEMMA PlaceOnce ==
  ASSUME SyncInv, OnceInv, NEW t \in Threads, Place(t)
  PROVE  SlotInv' /\ OutInv' /\ KeptInv' /\ SendersInv'
  <1> USE ThreadsAssumption DEF SyncInv, OnceInv
  <1>1. /\ pc[t] = "place" /\ pc'[t] # "place" /\ \A u \in Threads : u # t => pc'[u] = pc[u]
        /\ sent' = sent /\ gone' = gone /\ delivered' = delivered
    BY DEF Place, TypeOK
  <1>2. Children \subseteq Threads /\ \A c \in Children : sent[c] \in Nat
    BY Shapes
  <1>3. ASSUME NEW c \in Children, NEW n \in Nat
        PROVE  Given(c, n)' <=> Given(c, n) \/ (c = t /\ n = sent[c])
    <2>1. c = t => sent[c] >= 1
      BY <1>1 DEF CallInv
    <2> QED BY <1>1, <1>2, <2>1 DEF Given
  <1>4. \A c \in Children, n \in Nat : c = t /\ Given(c, n) => n < sent[c]
    BY <1>1 DEF Given
  <1>5. ASSUME NEW c \in Children
        PROVE  /\ \A i \in DOMAIN slots'[c] :
                     \/ i \in DOMAIN slots[c] /\ slots'[c][i] = slots[c][i]
                     \/ /\ c = t /\ slots'[c][i] = <<c, sent[c]>> /\ i = Len(slots'[c])
                        /\ i <= Len(slots[c]) + 1
               /\ DOMAIN slots'[c] = 1..Len(slots'[c]) /\ Len(slots'[c]) \in Nat
               /\ c \notin gone => \A i \in DOMAIN slots[c] : i \in DOMAIN slots'[c] /\ slots'[c][i] = slots[c][i]
               /\ c \notin gone /\ c = t => \E i \in DOMAIN slots'[c] : slots'[c][i] = <<c, sent[c]>>
    <2>1. PICK b \in {slots[c], <<>>} :
           /\ c \notin gone => b = slots[c]
           /\ \/ slots'[c] = b /\ (c = t => c \in gone)
              \/ slots'[c] = Append(b, <<c, sent[c]>>) /\ c = t
      BY PlaceEffect
    <2>2. /\ slots[c] \in Seq(Children \X Nat) /\ b \in Seq(Children \X Nat) /\ Len(b) <= Len(slots[c])
          /\ DOMAIN slots[c] = 1..Len(slots[c]) /\ DOMAIN b = 1..Len(b) /\ Len(b) \in Nat /\ Len(slots[c]) \in Nat
          /\ \A i \in DOMAIN b : i \in DOMAIN slots[c] /\ b[i] = slots[c][i]
      <3>1. /\ slots[c] \in Seq(Children \X Nat) /\ Len(slots[c]) \in Nat
            /\ DOMAIN slots[c] = 1..Len(slots[c])
        BY Shapes
      <3>2. <<>> \in Seq(Children \X Nat) /\ Len(<<>>) = 0 /\ DOMAIN <<>> = 1..0
        OBVIOUS
      <3>3. CASE b = slots[c]
        BY <3>1, <3>3
      <3>4. CASE b = <<>>
        BY <3>1, <3>2, <3>4
      <3> QED BY <3>3, <3>4
    <2>3. CASE slots'[c] = b /\ (c = t => c \in gone)
      BY <2>1, <2>2, <2>3
    <2>4. CASE slots'[c] = Append(b, <<c, sent[c]>>) /\ c = t
      <3>1. /\ Len(slots'[c]) = Len(b) + 1 /\ slots'[c][Len(b) + 1] = <<c, sent[c]>>
            /\ \A i \in 1..Len(b) : slots'[c][i] = b[i]
            /\ DOMAIN slots'[c] = 1..(Len(b) + 1)
        BY <1>2, <2>2, <2>4
      <3>2. ASSUME NEW i \in DOMAIN slots'[c]
            PROVE  \/ i \in DOMAIN slots[c] /\ slots'[c][i] = slots[c][i]
                   \/ slots'[c][i] = <<c, sent[c]>> /\ i = Len(slots'[c]) /\ i <= Len(slots[c]) + 1
        <4>1. i \in 1..Len(b) \/ i = Len(b) + 1
          BY <2>2, <3>1
        <4> QED BY <2>2, <3>1, <4>1
      <3>3. c \notin gone => \A i \in DOMAIN slots[c] : i \in DOMAIN slots'[c] /\ slots'[c][i] = slots[c][i]
        <4> SUFFICES ASSUME c \notin gone, NEW i \in DOMAIN slots[c]
                     PROVE  i \in DOMAIN slots'[c] /\ slots'[c][i] = slots[c][i]
          OBVIOUS
        <4>1. i \in 1..Len(b) /\ b = slots[c]
          BY <2>1, <2>2
        <4> QED BY <2>2, <3>1, <4>1
      <3>4. Len(b) + 1 \in DOMAIN slots'[c] /\ DOMAIN slots'[c] = 1..Len(slots'[c]) /\ Len(slots'[c]) \in Nat
        BY <2>2, <3>1
      <3> QED BY <2>4, <3>1, <3>2, <3>3, <3>4
    <2> QED BY <2>1, <2>3, <2>4
  <1>6. SlotInv'
    <2> SUFFICES ASSUME NEW c \in Children, NEW i \in DOMAIN slots'[c]
                 PROVE  /\ slots'[c][i][1] = c /\ i <= slots'[c][i][2]
                        /\ slots'[c][i][2] \in 1..sent'[c]
                        /\ pc'[c] = "place" => slots'[c][i][2] < sent'[c]
                        /\ \A j \in DOMAIN slots'[c] : i < j => slots'[c][i][2] < slots'[c][j][2]
      BY DEF SlotInv, Given
    <2>1. \A j \in DOMAIN slots[c] :
            /\ slots[c][j][1] = c /\ j <= slots[c][j][2] /\ slots[c][j][2] \in Nat
            /\ slots[c][j][2] \in 1..sent[c]
            /\ pc[c] = "place" => slots[c][j][2] < sent[c]
            /\ \A k \in DOMAIN slots[c] : j < k => slots[c][j][2] < slots[c][k][2]
      BY Shapes DEF SlotInv, Given
    <2>2. CASE i \in DOMAIN slots[c] /\ slots'[c][i] = slots[c][i]
      <3>1. /\ slots'[c][i][1] = c /\ i <= slots'[c][i][2]
            /\ slots'[c][i][2] \in 1..sent'[c]
            /\ pc'[c] = "place" => slots'[c][i][2] < sent'[c]
        BY <1>1, <1>2, <2>1, <2>2
      <3>2. ASSUME NEW j \in DOMAIN slots'[c], i < j PROVE slots'[c][i][2] < slots'[c][j][2]
        <4>1. CASE j \in DOMAIN slots[c] /\ slots'[c][j] = slots[c][j]
          BY <2>1, <2>2, <3>2, <4>1
        <4>2. CASE c = t /\ slots'[c][j] = <<c, sent[c]>>
          BY <1>1, <1>4, <2>1, <2>2, <4>2
        <4> QED BY <1>5, <4>1, <4>2
      <3> QED BY <3>1, <3>2
    <2>3. CASE c = t /\ slots'[c][i] = <<c, sent[c]>> /\ i = Len(slots'[c]) /\ i <= Len(slots[c]) + 1
      <3>1. i <= sent[c]
        <4>1. CASE Len(slots[c]) = 0
          BY <1>1, <1>2, <1>5, <2>3, <4>1 DEF CallInv
        <4>2. CASE Len(slots[c]) # 0
          <5>1. Len(slots[c]) \in DOMAIN slots[c] /\ Len(slots[c]) \in Nat
            BY <4>2, Shapes
          <5>2. Len(slots[c]) <= slots[c][Len(slots[c])][2] /\ slots[c][Len(slots[c])][2] < sent[c]
            BY <1>1, <2>1, <2>3, <5>1
          <5>3. slots[c][Len(slots[c])][2] \in Nat
            BY <2>1, <5>1
          <5> QED BY <1>2, <1>5, <2>3, <5>1, <5>2, <5>3
        <4> QED BY <4>1, <4>2
      <3>2. slots'[c][i][1] = c /\ slots'[c][i][2] = sent'[c] /\ pc'[c] # "place" /\ sent'[c] >= 1
        BY <1>1, <2>3 DEF CallInv
      <3>3. \A j \in DOMAIN slots'[c] : ~(i < j)
        BY <1>5, <2>3
      <3> QED BY <1>1, <1>2, <3>1, <3>2, <3>3
    <2> QED BY <1>5, <2>2, <2>3
  <1>7. ASSUME NEW c \in Children, NEW n \in Nat, Given(c, n), \A i \in DOMAIN slots[c] : n < slots[c][i][2]
        PROVE  Given(c, n)' /\ \A i \in DOMAIN slots'[c] : n < slots'[c][i][2]
    BY <1>3, <1>4, <1>5, <1>7
  <1>8. ASSUME NEW u \in Threads PROVE \/ hand'[u] = hand[u]
                                       \/ u = t /\ t = Local /\ hand'[u].packets = {<<Local, sent[Local]>>}
    BY DEF Place, Output, Current, TypeOK
  <1>9. hand[t].packets = {}
    BY <1>1, Shapes DEF CallInv
  <1>10. OutInv'
    <2>1. ASSUME NEW c \in Children, NEW n \in Nat, NEW u \in Threads, <<c, n>> \in hand'[u].packets
          PROVE  <<c, n>> \in hand[u].packets
      BY <1>8, <2>1
    <2>2. ASSUME NEW c \in Children, NEW n \in Nat, NEW u \in Threads, <<c, n>> \in hand'[u].packets
          PROVE  Given(c, n)' /\ \A i \in DOMAIN slots'[c] : n < slots'[c][i][2]
      BY <1>7, <2>1, <2>2 DEF OutInv, Earlier
    <2>3. ASSUME NEW c \in Children, NEW n \in Nat, NEW i \in DOMAIN delivered, <<c, n>> \in delivered[i]
          PROVE  Given(c, n)' /\ \A k \in DOMAIN slots'[c] : n < slots'[c][k][2]
      BY <1>7, <2>3 DEF OutInv, Earlier
    <2>4. (\A u \in Threads : Earlier(hand[u].packets))' /\ (\A i \in DOMAIN delivered : Earlier(delivered[i]))'
      BY <1>1, <2>2, <2>3 DEF Earlier
    <2> QED BY <1>1, <2>1, <2>4 DEF OutInv
  <1>11. KeptInv'
    <2> SUFFICES ASSUME NEW c \in Children \ gone, NEW n \in Nat, Given(c, n)' PROVE Somewhere(c, n)'
      BY <1>1 DEF KeptInv
    <2>1. CASE Given(c, n)
      <3>1. Somewhere(c, n)
        BY <2>1 DEF KeptInv
      <3>2. \A u \in Threads : <<c, n>> \in hand[u].packets => <<c, n>> \in hand'[u].packets
        BY <1>8, <1>9
      <3>3. (\E i \in DOMAIN slots[c] : slots[c][i] = <<c, n>>) => \E i \in DOMAIN slots'[c] : slots'[c][i] = <<c, n>>
        BY <1>5
      <3> QED BY <1>1, <3>1, <3>2, <3>3 DEF Somewhere
    <2>2. CASE c = t /\ n = sent[c]
      BY <1>5, <2>2 DEF Somewhere
    <2> QED BY <1>3, <2>1, <2>2
  <1>12. SendersInv'
    BY <1>1, <1>8 DEF SendersInv
  <1> QED BY <1>6, <1>10, <1>11, <1>12


\* A judgement keeps the account of the packets: what leaves the slots is in the hand of the
\* thread, and was in no other output.
LEMMA JudgeOnce ==
  ASSUME SyncInv, OnceInv, NEW t \in Threads, Judge(t)
  PROVE  SlotInv' /\ OutInv' /\ KeptInv' /\ SendersInv'
  <1> USE ThreadsAssumption DEF SyncInv, OnceInv
  <1>1. /\ pc[t] = "judge" /\ pc'[t] # "place" /\ \A u \in Threads : u # t => pc'[u] = pc[u] /\ hand'[u] = hand[u]
        /\ sent' = sent /\ gone' = gone /\ delivered' = delivered
    BY DEF Judge, TypeOK, topology
  <1>2. Children \subseteq Threads /\ \A c \in Children : sent[c] \in Nat
    BY Shapes
  <1>3. \A c \in Children, n \in Nat : Given(c, n)' <=> Given(c, n)
    BY <1>1, <1>2, SameGiven
  <1>4. hand[t].packets = {}
    BY <1>1, Shapes DEF CallInv
  <1>5. ASSUME NEW c \in Children
        PROVE  \E d \in 0..Len(slots[c]) :
                 /\ \A i \in DOMAIN slots'[c] : i + d \in DOMAIN slots[c] /\ slots'[c][i] = slots[c][i + d] /\ i \in Nat
                 /\ \A i \in DOMAIN slots[c] : i <= d \/ \E j \in DOMAIN slots'[c] : slots'[c][j] = slots[c][i]
                 /\ \A n \in Nat : <<c, n>> \in hand'[t].packets <=> \E i \in 1..d : slots[c][i] = <<c, n>>
                 /\ \A i \in 1..d : i \in DOMAIN slots[c] /\ \A j \in DOMAIN slots'[c] : i < j + d
    <2>1. PICK d \in 0..Len(slots[c]) :
           /\ slots'[c] \in Seq(Children \X Nat) /\ Len(slots'[c]) = Len(slots[c]) - d
           /\ \A i \in 1..Len(slots'[c]) : slots'[c][i] = slots[c][i + d]
           /\ \A n \in Nat : <<c, n>> \in hand'[t].packets <=> \E i \in 1..d : slots[c][i] = <<c, n>>
      BY JudgeEffect
    <2>2. DOMAIN slots[c] = 1..Len(slots[c]) /\ Len(slots[c]) \in Nat
      BY Shapes
    <2>3. DOMAIN slots'[c] = 1..Len(slots'[c]) /\ Len(slots'[c]) \in Nat
      BY <2>1
    <2>4. \A i \in DOMAIN slots'[c] : i + d \in DOMAIN slots[c] /\ slots'[c][i] = slots[c][i + d] /\ i \in Nat
      <3>1. \A i \in DOMAIN slots'[c] : slots'[c][i] = slots[c][i + d]
        BY <2>1, <2>3
      <3>2. ASSUME NEW i \in 1..Len(slots'[c]) PROVE i + d \in 1..Len(slots[c]) /\ i \in Nat
        <4>1. \A L \in Nat : \A e \in 0..L : \A k \in 1..(L - e) : k + e \in 1..L /\ k \in Nat
          OBVIOUS
        <4>2. Len(slots'[c]) = Len(slots[c]) - d
          BY <2>1
        <4> QED BY <2>2, <4>1, <4>2
      <3> QED BY <2>2, <2>3, <3>1, <3>2
    <2>5. ASSUME NEW i \in DOMAIN slots[c], ~(i <= d) PROVE \E j \in DOMAIN slots'[c] : slots'[c][j] = slots[c][i]
      <3>1. i - d \in DOMAIN slots'[c] /\ (i - d) + d = i
        BY <2>1, <2>2, <2>3, <2>5
      <3>2. slots'[c][i - d] = slots[c][(i - d) + d]
        BY <2>1, <2>3, <3>1
      <3> QED BY <3>1, <3>2
    <2>6. \A i \in 1..d : i \in DOMAIN slots[c] /\ \A j \in DOMAIN slots'[c] : i < j + d
      BY <2>1, <2>2, <2>3
    <2> QED BY <2>1, <2>4, <2>5, <2>6
  <1>6. ASSUME NEW c \in Children, NEW i \in DOMAIN slots[c]
        PROVE  /\ slots[c][i][1] = c /\ i <= slots[c][i][2] /\ slots[c][i][2] \in Nat
               /\ slots[c][i] = <<c, slots[c][i][2]>>
               /\ slots[c][i][2] \in 1..sent[c]
               /\ pc[c] = "place" => slots[c][i][2] < sent[c]
               /\ \A k \in DOMAIN slots[c] : i < k => slots[c][i][2] < slots[c][k][2]
    <2>1. slots[c][i] \in Children \X Nat
      BY Shapes
    <2>2. slots[c][i][1] = c
      BY DEF SlotInv
    <2> QED BY <2>1, <2>2 DEF SlotInv, Given
  <1>7. SlotInv'
    <2> SUFFICES ASSUME NEW c \in Children, NEW i \in DOMAIN slots'[c]
                 PROVE  /\ slots'[c][i][1] = c /\ i <= slots'[c][i][2]
                        /\ slots'[c][i][2] \in 1..sent'[c]
                        /\ pc'[c] = "place" => slots'[c][i][2] < sent'[c]
                        /\ \A j \in DOMAIN slots'[c] : i < j => slots'[c][i][2] < slots'[c][j][2]
      BY DEF SlotInv, Given
    <2>1. PICK d \in 0..Len(slots[c]) :
            \A j \in DOMAIN slots'[c] : j + d \in DOMAIN slots[c] /\ slots'[c][j] = slots[c][j + d] /\ j \in Nat
      BY <1>5
    <2>2. i + d \in DOMAIN slots[c] /\ slots'[c][i] = slots[c][i + d] /\ i \in Nat /\ d \in Nat
      BY <2>1, Shapes
    <2>3. /\ slots'[c][i][1] = c /\ i + d <= slots'[c][i][2] /\ slots'[c][i][2] \in 1..sent[c]
          /\ pc[c] = "place" => slots'[c][i][2] < sent[c]
      BY <1>6, <2>2
    <2>4. i <= slots'[c][i][2]
      BY <1>2, <2>2, <2>3
    <2>5. ASSUME NEW j \in DOMAIN slots'[c], i < j PROVE slots'[c][i][2] < slots'[c][j][2]
      <3>1. j + d \in DOMAIN slots[c] /\ slots'[c][j] = slots[c][j + d] /\ i + d < j + d
        BY <2>1, <2>2, <2>5
      <3> QED BY <1>6, <2>2, <3>1
    <2> QED BY <1>1, <1>2, <2>3, <2>4, <2>5
  <1>8. ASSUME NEW c \in Children, NEW n \in Nat, Given(c, n), \A i \in DOMAIN slots[c] : n < slots[c][i][2]
        PROVE  Given(c, n)' /\ \A i \in DOMAIN slots'[c] : n < slots'[c][i][2]
    BY <1>3, <1>5, <1>8
  <1>9. ASSUME NEW c \in Children, NEW n \in Nat, <<c, n>> \in hand'[t].packets
        PROVE  /\ \E i \in DOMAIN slots[c] : slots[c][i] = <<c, n>>
               /\ Given(c, n)' /\ \A i \in DOMAIN slots'[c] : n < slots'[c][i][2]
    <2>1. PICK d \in 0..Len(slots[c]) :
             /\ \A i \in DOMAIN slots'[c] : i + d \in DOMAIN slots[c] /\ slots'[c][i] = slots[c][i + d] /\ i \in Nat
             /\ \E i \in 1..d : slots[c][i] = <<c, n>>
             /\ \A i \in 1..d : i \in DOMAIN slots[c] /\ \A j \in DOMAIN slots'[c] : i < j + d
      BY <1>5, <1>9
    <2>2. PICK i \in 1..d : slots[c][i] = <<c, n>>
      BY <2>1
    <2>3. i \in DOMAIN slots[c] /\ slots[c][i][2] = n
      BY <2>1, <2>2
    <2>4. Given(c, n)
      BY <1>6, <2>3 DEF Given
    <2>5. ASSUME NEW j \in DOMAIN slots'[c] PROVE n < slots'[c][j][2]
      <3>1. j + d \in DOMAIN slots[c] /\ slots'[c][j] = slots[c][j + d] /\ i < j + d
        BY <2>1
      <3> QED BY <1>6, <2>3, <3>1
    <2> QED BY <1>3, <2>2, <2>3, <2>4, <2>5
  <1>10. ASSUME NEW c \in Children, NEW n \in Nat, <<c, n>> \in hand'[t].packets
         PROVE  /\ \A u \in Threads : <<c, n>> \notin hand[u].packets
                /\ \A i \in DOMAIN delivered : <<c, n>> \notin delivered[i]
    <2>1. PICK i \in DOMAIN slots[c] : slots[c][i] = <<c, n>>
      BY <1>9, <1>10
    <2>2. slots[c][i][2] = n /\ ~(n < n)
      BY <2>1
    <2> QED BY <2>1, <2>2 DEF OutInv, Earlier
  <1>11. OutInv'
    <2>1. ASSUME NEW c \in Children, NEW n \in Nat, NEW u \in Threads, <<c, n>> \in hand'[u].packets
          PROVE  Given(c, n)' /\ \A i \in DOMAIN slots'[c] : n < slots'[c][i][2]
      <3>1. CASE u = t
        BY <1>9, <2>1, <3>1
      <3>2. CASE u # t
        BY <1>1, <1>8, <2>1, <3>2 DEF OutInv, Earlier
      <3> QED BY <3>1, <3>2
    <2>2. ASSUME NEW c \in Children, NEW n \in Nat, NEW i \in DOMAIN delivered, <<c, n>> \in delivered[i]
          PROVE  Given(c, n)' /\ \A k \in DOMAIN slots'[c] : n < slots'[c][k][2]
      BY <1>8, <2>2 DEF OutInv, Earlier
    <2>3. (\A u \in Threads : Earlier(hand[u].packets))' /\ (\A i \in DOMAIN delivered : Earlier(delivered[i]))'
      BY <1>1, <2>1, <2>2 DEF Earlier
    <2>4. ASSUME NEW c \in Children, NEW n \in Nat, NEW u \in Threads, <<c, n>> \in hand'[u].packets
          PROVE  /\ \A v \in Threads : <<c, n>> \in hand'[v].packets => u = v
                 /\ \A i \in DOMAIN delivered : <<c, n>> \notin delivered[i]
      <3>1. CASE u = t
        BY <1>1, <1>10, <2>4, <3>1
      <3>2. CASE u # t
        BY <1>1, <1>10, <2>4, <3>2 DEF OutInv
      <3> QED BY <3>1, <3>2
    <2>5. \A c \in Children, n \in Nat : \A i, j \in DOMAIN delivered :
             <<c, n>> \in delivered[i] /\ <<c, n>> \in delivered[j] => i = j
      BY DEF OutInv
    <2> QED BY <1>1, <2>3, <2>4, <2>5 DEF OutInv
  <1>12. KeptInv'
    <2> SUFFICES ASSUME NEW c \in Children \ gone, NEW n \in Nat, Given(c, n)' PROVE Somewhere(c, n)'
      BY <1>1 DEF KeptInv
    <2>1. Somewhere(c, n)
      BY <1>3 DEF KeptInv
    <2>2. ASSUME NEW i \in DOMAIN slots[c], slots[c][i] = <<c, n>> PROVE Somewhere(c, n)'
      <3>1. PICK d \in 0..Len(slots[c]) :
              /\ i <= d \/ \E j \in DOMAIN slots'[c] : slots'[c][j] = slots[c][i]
              /\ <<c, n>> \in hand'[t].packets <=> \E k \in 1..d : slots[c][k] = <<c, n>>
        BY <1>5
      <3>2. i \in 1..Len(slots[c]) /\ d \in 0..Len(slots[c]) /\ Len(slots[c]) \in Nat
        BY Shapes
      <3>3. i <= d => i \in 1..d
        BY <3>2
      <3> QED BY <2>2, <3>1, <3>3 DEF Somewhere
    <2>3. ASSUME NEW u \in Threads, <<c, n>> \in hand[u].packets PROVE Somewhere(c, n)'
      BY <1>1, <1>4, <2>3 DEF Somewhere
    <2> QED BY <1>1, <2>1, <2>2, <2>3 DEF Somewhere
  <1>13. SendersInv'
    <2>1. \A p \in hand'[t].packets : p[1] # Det
      <3>1. hand'[t].packets \subseteq Children \X Nat
        <4> DEFINE with == IF kind = "TIMEOUT" THEN seen ELSE peers
                   out == IF ~Complete(t, with) THEN {} ELSE IF t = Det THEN Held ELSE Heads
        <4>1. hand'[t] = IF out = {} THEN Nothing ELSE Output(out, with, t # Det)
          BY DEF Judge, TypeOK
        <4>2. hand'[t].packets = out
          BY <4>1 DEF Nothing, Output
        <4> QED BY <4>2, OutputType
      <3> QED BY <3>1
    <2> QED BY <1>1, <2>1 DEF SendersInv
  <1> QED BY <1>7, <1>11, <1>12, <1>13

\* Sending a wave on keeps the account of the packets.
LEMMA DeliverOnce ==
  ASSUME SyncInv, OnceInv, NEW t \in Threads, Deliver(t)
  PROVE  SlotInv' /\ OutInv' /\ KeptInv' /\ SendersInv'
  <1> USE DEF SyncInv, OnceInv, topology, filter
  <1>1. /\ UNCHANGED <<slots, sent, gone>>
        /\ hand'[t].packets = {} /\ \A u \in Threads : u # t => hand'[u] = hand[u]
    BY Shapes DEF Deliver, TypeOK
  <1>2. \A c \in Children, n \in Nat : Given(c, n)' <=> Given(c, n)
    <2>1. \A c \in Children : (pc'[c] = "place") <=> (pc[c] = "place")
      BY DEF Deliver, TypeOK, Threads
    <2> QED BY <1>1, <2>1, SameGiven
  <1>3. /\ DOMAIN delivered = 1..Len(delivered) /\ Len(delivered) \in Nat
        /\ DOMAIN delivered' = 1..(Len(delivered) + 1)
        /\ \A i \in DOMAIN delivered : delivered'[i] = delivered[i]
        /\ delivered'[Len(delivered) + 1] = hand[t].packets
    <2>1. delivered' = Append(delivered, hand[t].packets)
      BY DEF Deliver
    <2>2. delivered \in Seq(SUBSET (Threads \X Nat)) /\ hand[t].packets \in SUBSET (Threads \X Nat)
      BY DEF TypeOK, OutputSet
    <2> QED BY <2>1, <2>2
  <1>4. ASSUME NEW i \in DOMAIN delivered'
        PROVE  \/ i \in DOMAIN delivered /\ delivered'[i] = delivered[i]
               \/ i = Len(delivered) + 1 /\ i \notin DOMAIN delivered /\ delivered'[i] = hand[t].packets
    BY <1>3
  <1>5. SlotInv'
    <2>1. \A c \in Children : \A i \in DOMAIN slots[c] : slots[c][i][2] \in Nat
      BY Shapes
    <2> QED BY <1>1, <1>2, <2>1 DEF SlotInv
  <1>6. OutInv'
    <2>1. ASSUME NEW c \in Children, NEW n \in Nat, Given(c, n), \A i \in DOMAIN slots[c] : n < slots[c][i][2]
          PROVE  Given(c, n)' /\ \A i \in DOMAIN slots'[c] : n < slots'[c][i][2]
      BY <1>1, <1>2, <2>1
    <2>2. ASSUME NEW c \in Children, NEW n \in Nat, NEW u \in Threads, <<c, n>> \in hand'[u].packets
          PROVE  u # t /\ <<c, n>> \in hand[u].packets /\ Given(c, n)' /\ \A i \in DOMAIN slots'[c] : n < slots'[c][i][2]
      BY <1>1, <2>1, <2>2 DEF OutInv, Earlier
    <2>3. ASSUME NEW c \in Children, NEW n \in Nat, NEW i \in DOMAIN delivered', <<c, n>> \in delivered'[i]
          PROVE  Given(c, n)' /\ \A k \in DOMAIN slots'[c] : n < slots'[c][k][2]
      BY <1>4, <2>1, <2>3 DEF OutInv, Earlier
    <2>4. (\A u \in Threads : Earlier(hand[u].packets))' /\ (\A i \in DOMAIN delivered : Earlier(delivered[i]))'
      BY <2>2, <2>3 DEF Earlier
    <2>5. ASSUME NEW c \in Children, NEW n \in Nat, NEW u \in Threads, <<c, n>> \in hand'[u].packets
          PROVE  /\ \A v \in Threads : <<c, n>> \in hand'[v].packets => u = v
                 /\ \A i \in DOMAIN delivered' : <<c, n>> \notin delivered'[i]
      BY <1>4, <2>2, <2>5 DEF OutInv
    <2>6. ASSUME NEW c \in Children, NEW n \in Nat, NEW i \in DOMAIN delivered', NEW j \in DOMAIN delivered',
                 <<c, n>> \in delivered'[i], <<c, n>> \in delivered'[j]
          PROVE  i = j
      BY <1>4, <2>6 DEF OutInv
    <2> QED BY <2>4, <2>5, <2>6 DEF OutInv
  <1>7. KeptInv'
    <2> SUFFICES ASSUME NEW c \in Children \ gone, NEW n \in Nat, Given(c, n)' PROVE Somewhere(c, n)'
      BY <1>1 DEF KeptInv
    <2>1. Somewhere(c, n)
      BY <1>2 DEF KeptInv
    <2>2. Len(delivered) + 1 \in DOMAIN delivered' /\ \A i \in DOMAIN delivered : i \in DOMAIN delivered'
      BY <1>3
    <2> QED BY <1>1, <1>3, <2>1, <2>2 DEF Somewhere
  <1>8. SendersInv'
    BY <1>1, <1>4 DEF SendersInv
  <1> QED BY <1>5, <1>6, <1>7, <1>8


\* A packet that goes through the NULL filter is new, and the filter holds none.
LEMMA PassOnce ==
  ASSUME SyncInv, OnceInv, NEW t \in Threads, PassThrough(t)
  PROVE  SlotInv' /\ OutInv' /\ KeptInv' /\ SendersInv'
  <1> USE ThreadsAssumption DEF SyncInv, OnceInv, topology, filter
  <1>1. /\ UNCHANGED <<slots, gone, delivered>> /\ \A c \in Children : slots[c] = <<>>
        /\ t # Det /\ pc[t] = "idle" /\ pc'[t] = "deliver" /\ sent' = [sent EXCEPT ![t] = @ + 1]
        /\ \A u \in Threads : u # t => pc'[u] = pc[u] /\ hand'[u] = hand[u]
        /\ hand'[t].packets = {<<t, sent[t] + 1>>}
    BY DEF PassThrough, Arrive, TypeOK, CallInv, Output
  <1>2. Children \subseteq Threads /\ \A c \in Children : sent[c] \in Nat
    BY Shapes
  <1>3. \A c \in Children : sent'[c] = IF c = t THEN sent[c] + 1 ELSE sent[c]
    BY <1>1 DEF TypeOK
  <1>4. ASSUME NEW c \in Children, NEW n \in Nat
        PROVE  Given(c, n)' <=> Given(c, n) \/ (c = t /\ n = sent[c] + 1)
    BY <1>1, <1>2, <1>3 DEF Given
  <1>5. ASSUME NEW c \in Children, NEW n \in Nat, Given(c, n) PROVE n # sent[c] + 1
    BY <1>2, <1>5 DEF Given
  <1>6. hand[t].packets = {}
    BY <1>1, Shapes DEF CallInv
  <1>7. \A c \in Children : DOMAIN slots'[c] = {}
    BY <1>1
  <1>8. SlotInv'
    BY <1>7 DEF SlotInv
  <1>9. ASSUME NEW c \in Children, NEW n \in Nat, NEW u \in Threads, <<c, n>> \in hand'[u].packets
        PROVE  \/ u # t /\ <<c, n>> \in hand[u].packets /\ Given(c, n)
               \/ u = t /\ c = t /\ n = sent[c] + 1
    BY <1>1, <1>9 DEF OutInv, Earlier
  <1>10. ASSUME NEW c \in Children, NEW n \in Nat, NEW i \in DOMAIN delivered, <<c, n>> \in delivered[i]
         PROVE  Given(c, n)
    BY <1>10 DEF OutInv, Earlier
  <1>11. OutInv'
    <2>1. (\A u \in Threads : Earlier(hand[u].packets))' /\ (\A i \in DOMAIN delivered : Earlier(delivered[i]))'
      BY <1>1, <1>4, <1>7, <1>9, <1>10 DEF Earlier
    <2>2. ASSUME NEW c \in Children, NEW n \in Nat, NEW u \in Threads, <<c, n>> \in hand'[u].packets
          PROVE  /\ \A v \in Threads : <<c, n>> \in hand'[v].packets => u = v
                 /\ \A i \in DOMAIN delivered : <<c, n>> \notin delivered[i]
      <3>1. ASSUME NEW v \in Threads, <<c, n>> \in hand'[v].packets PROVE u = v
        BY <1>5, <1>9, <2>2, <3>1 DEF OutInv
      <3>2. ASSUME NEW i \in DOMAIN delivered, <<c, n>> \in delivered[i] PROVE FALSE
        BY <1>5, <1>9, <1>10, <2>2, <3>2 DEF OutInv
      <3> QED BY <3>1, <3>2
    <2>3. \A c \in Children, n \in Nat : \A i, j \in DOMAIN delivered :
             <<c, n>> \in delivered[i] /\ <<c, n>> \in delivered[j] => i = j
      BY DEF OutInv
    <2> QED BY <1>1, <2>1, <2>2, <2>3 DEF OutInv
  <1>12. KeptInv'
    <2> SUFFICES ASSUME NEW c \in Children \ gone, NEW n \in Nat, Given(c, n)' PROVE Somewhere(c, n)'
      BY <1>1 DEF KeptInv
    <2>1. CASE Given(c, n)
      <3>1. Somewhere(c, n)
        BY <2>1 DEF KeptInv
      <3> QED BY <1>1, <1>6, <3>1 DEF Somewhere
    <2>2. CASE c = t /\ n = sent[c] + 1
      BY <1>1, <2>2 DEF Somewhere
    <2> QED BY <1>4, <2>1, <2>2
  <1>13. SendersInv'
    BY <1>1 DEF SendersInv
  <1> QED BY <1>8, <1>11, <1>12, <1>13

\* The steps keep the account of the packets.
LEMMA StepOnce == ASSUME SyncInv, OnceInv, Next PROVE OnceInv'
  <1> USE ThreadsAssumption DEF topology, filter, SyncInv
  <1> pc \in [Threads -> Labels] /\ sent \in [Children \cup {Local} -> Nat]
    BY DEF TypeOK
  <1> Children \subseteq Threads /\ Det \in Threads /\ Local \in Threads
    BY Shapes
  <1>1. CallInv'
    BY StepCall
  <1>2. ASSUME NEW t \in Threads, Enter(t) PROVE SlotInv' /\ OutInv' /\ KeptInv' /\ SendersInv'
    <2>1. \A c \in Children, n \in Nat : Given(c, n)' <=> Given(c, n)
      <3>1. CASE Arrive(t)
        <4>1. t \in Children \cup {Local} /\ pc[t] = "idle" /\ pc'[t] = "place" /\ sent'[t] = sent[t] + 1
          BY <1>2, <3>1 DEF Arrive, Threads, Enter
        <4>2. \A c \in Children : c # t => sent'[c] = sent[c] /\ pc'[c] = pc[c]
          BY <1>2, <3>1 DEF Arrive, Enter
        <4> QED BY <4>1, <4>2 DEF Given
      <3>2. CASE t = Det /\ UNCHANGED sent
        <4>1. \A c \in Children : (pc'[c] = "place") <=> (pc[c] = "place")
          BY <1>2, <3>2 DEF Enter
        <4> QED BY <3>2, <4>1, SameGiven
      <3> QED BY <1>2, <3>1, <3>2 DEF Enter
    <2>2. UNCHANGED <<slots, hand, delivered, gone>>
      BY <1>2 DEF Enter
    <2> QED BY <2>1, <2>2, NothingMoves
  <1>3. ASSUME NEW t \in Threads, Place(t) PROVE SlotInv' /\ OutInv' /\ KeptInv' /\ SendersInv'
    BY <1>3, PlaceOnce
  <1>4. ASSUME NEW t \in Threads, Judge(t) PROVE SlotInv' /\ OutInv' /\ KeptInv' /\ SendersInv'
    BY <1>4, JudgeOnce
  <1>5. ASSUME NEW t \in Threads, Deliver(t) PROVE SlotInv' /\ OutInv' /\ KeptInv' /\ SendersInv'
    BY <1>5, DeliverOnce
  <1>6. ASSUME NEW t \in Threads, PassThrough(t) PROVE SlotInv' /\ OutInv' /\ KeptInv' /\ SendersInv'
    BY <1>6, PassOnce
  <1>7. ASSUME NEW e \in 1..MaxElapsed, handle_Timeout(e) PROVE SlotInv' /\ OutInv' /\ KeptInv' /\ SendersInv'
    <2>1. UNCHANGED <<slots, hand, delivered, gone, sent>> /\ \A c \in Children : (pc'[c] = "place") <=> (pc[c] = "place")
      BY <1>7 DEF handle_Timeout
    <2> QED BY <2>1, SameGiven, NothingMoves
  <1>8. ASSUME NEW c \in Children, ChildFailed(c) PROVE SlotInv' /\ OutInv' /\ KeptInv' /\ SendersInv'
    <2>1. /\ UNCHANGED <<slots, hand, delivered, sent>> /\ gone \subseteq gone'
          /\ \A d \in Children : (pc'[d] = "place") <=> (pc[d] = "place")
      BY <1>8 DEF ChildFailed
    <2> QED BY <2>1, SameGiven, NothingMoves
  <1>9. ASSUME RemovePeer PROVE SlotInv' /\ OutInv' /\ KeptInv' /\ SendersInv'
    <2>1. UNCHANGED <<slots, hand, delivered, gone, sent>> /\ \A c \in Children : (pc'[c] = "place") <=> (pc[c] = "place")
      BY <1>9 DEF RemovePeer
    <2> QED BY <2>1, SameGiven, NothingMoves
  <1> QED
    BY <1>1, <1>2, <1>3, <1>4, <1>5, <1>6, <1>7, <1>8, <1>9 DEF Next, Push, OnceInv

LEMMA InitOnce == ASSUME Init PROVE OnceInv
  <1> USE DEF Init
  <1>1. Nothing.packets = {} /\ Det \in Threads
    BY Shapes, InitSync DEF SyncInv
  <1>2. CallInv
    BY DEF CallInv, Threads
  <1>3. SlotInv
    BY DEF SlotInv
  <1>4. OutInv
    BY <1>1 DEF OutInv, Earlier
  <1>5. KeptInv
    <2>1. \A c \in Children, n \in Nat : ~Given(c, n)
      BY DEF Given
    <2> QED BY <2>1 DEF KeptInv
  <1>6. SendersInv
    BY <1>1 DEF SendersInv
  <1> QED BY <1>2, <1>3, <1>4, <1>5, <1>6 DEF OnceInv


\* The account of the packets is right in every behaviour.
LEMMA OnceInvariant == Spec => []OnceInv
  <1>1. Init => OnceInv
    BY InitOnce
  <1>2. SyncInv /\ OnceInv /\ [Next]_vars => OnceInv'
    <2>1. ASSUME OnceInv, UNCHANGED vars PROVE OnceInv'
      <3>1. UNCHANGED <<slots, hand, delivered, gone, sent, pc, mutex, seen, setup>>
        BY <2>1 DEF vars, topology, filter
      <3> QED BY <2>1, <3>1
           DEF OnceInv, CallInv, SlotInv, OutInv, KeptInv, SendersInv, Somewhere, Earlier, Given, kind
    <2> QED BY <2>1, StepOnce
  <1> QED
    BY <1>1, <1>2, SyncInvariant, PTL DEF Spec

\* How many elements a set has that has at most one.
LEMMA AtMostOne ==
  ASSUME NEW S, \A x, y \in S : x = y
  PROVE  /\ Cardinality(S) \in {0, 1}
         /\ S # {} => Cardinality(S) = 1
         /\ S = {} => Cardinality(S) = 0
  <1>1. CASE S = {}
    BY <1>1, FS_EmptySet
  <1>2. CASE S # {}
    <2>1. PICK x \in S : TRUE
      BY <1>2
    <2>2. S = {x}
      BY <2>1
    <2> QED BY <1>2, <2>2, FS_Singleton
  <1> QED BY <1>1, <1>2

\* A packet is in one place at most, and in one if the filter was given it and its child runs.
LEMMA CountCopies ==
  ASSUME SyncInv, CountInv, OnceInv, NEW c \in Children, NEW n \in 1..sent[c]
  PROVE  /\ Copies(<<c, n>>) \in {0, 1}
         /\ ~Given(c, n) => Copies(<<c, n>>) = 0
         /\ c \notin gone /\ Given(c, n) => Copies(<<c, n>>) = 1
  <1> USE DEF SyncInv, OnceInv
  <1> DEFINE A == {x \in Children \X (1..MaxPackets) :
                     x[2] \in DOMAIN slots[x[1]] /\ slots[x[1]][x[2]] = <<c, n>>}
             B == {t \in Threads : <<c, n>> \in hand[t].packets}
             C == {i \in DOMAIN delivered : <<c, n>> \in delivered[i]}
  <1>1. Copies(<<c, n>>) = Cardinality(A) + Cardinality(B) + Cardinality(C)
    BY DEF Copies
  <1>2. n \in Nat /\ sent[c] \in Nat /\ sent[c] <= MaxPackets
    BY Shapes DEF CountInv
  <1>3. ASSUME NEW e \in Children, NEW i \in DOMAIN slots[e], slots[e][i] = <<c, n>>
        PROVE  /\ e = c /\ Given(c, n) /\ i \in 1..MaxPackets
               /\ \A j \in DOMAIN slots[c] : slots[c][j] = <<c, n>> => i = j
    <2>1. slots[e][i][1] = c /\ slots[e][i][2] = n
      BY <1>3
    <2>2. e = c /\ i <= n /\ n \in 1..sent[c] /\ (pc[c] = "place" => n < sent[c])
      BY <1>3, <2>1 DEF SlotInv, Given
    <2>3. DOMAIN slots[c] = 1..Len(slots[c]) /\ Len(slots[c]) \in Nat
      BY Shapes
    <2>4. i \in 1..MaxPackets
      <3>1. i \in Nat /\ i >= 1 /\ n <= MaxPackets
        BY <1>2, <1>3, <2>2, <2>3, BoundsAssumption
      <3> QED BY <1>2, <2>2, <3>1, BoundsAssumption
    <2>5. ASSUME NEW j \in DOMAIN slots[c], slots[c][j] = <<c, n>> PROVE i = j
      <3>1. slots[c][j][2] = n /\ i \in DOMAIN slots[c] /\ slots[c][i][2] = n
        BY <1>3, <2>1, <2>2, <2>5
      <3>2. ~(i < j) /\ ~(j < i)
        BY <1>2, <2>5, <3>1 DEF SlotInv
      <3> QED BY <2>3, <2>5, <3>1, <3>2
    <2> QED BY <2>2, <2>4, <2>5 DEF Given
  <1>4. \A x \in A : x = <<c, x[2]>> /\ x[2] \in DOMAIN slots[c] /\ slots[c][x[2]] = <<c, n>>
    BY <1>3
  <1>5. \A x, y \in A : x = y
    BY <1>3, <1>4
  <1>6. \A t, u \in B : t = u
    BY <1>2 DEF OutInv
  <1>7. \A i, j \in C : i = j
    BY <1>2 DEF OutInv
  <1>8. (A # {} => B = {} /\ C = {}) /\ (B # {} => C = {})
    <2>1. ASSUME A # {}, B # {} \/ C # {} PROVE FALSE
      <3>1. PICK i \in DOMAIN slots[c] : slots[c][i] = <<c, n>>
        BY <1>4, <2>1
      <3>2. slots[c][i][2] = n /\ ~(n < n)
        BY <1>2, <3>1
      <3> QED BY <1>2, <2>1, <3>2 DEF OutInv, Earlier
    <2>2. ASSUME B # {}, C # {} PROVE FALSE
      BY <1>2, <2>2 DEF OutInv
    <2> QED BY <2>1, <2>2
  <1>9. A # {} \/ B # {} \/ C # {} => Given(c, n)
    <2>1. A # {} => Given(c, n)
      BY <1>3, <1>4
    <2> QED BY <1>2, <2>1 DEF OutInv, Earlier
  <1>10. c \notin gone /\ Given(c, n) => A # {} \/ B # {} \/ C # {}
    <2> SUFFICES ASSUME c \notin gone, Given(c, n) PROVE A # {} \/ B # {} \/ C # {}
      OBVIOUS
    <2>1. Somewhere(c, n)
      BY <1>2 DEF KeptInv
    <2>2. ASSUME NEW i \in DOMAIN slots[c], slots[c][i] = <<c, n>> PROVE A # {}
      <3>1. <<c, i>> \in Children \X (1..MaxPackets)
        BY <1>3, <2>2
      <3>2. <<c, i>> \in A
        BY <2>2, <3>1
      <3> QED BY <3>2
    <2> QED BY <2>1, <2>2 DEF Somewhere
  <1>11. /\ Cardinality(A) \in {0, 1} /\ (A # {} => Cardinality(A) = 1) /\ (A = {} => Cardinality(A) = 0)
         /\ Cardinality(B) \in {0, 1} /\ (B # {} => Cardinality(B) = 1) /\ (B = {} => Cardinality(B) = 0)
         /\ Cardinality(C) \in {0, 1} /\ (C # {} => Cardinality(C) = 1) /\ (C = {} => Cardinality(C) = 0)
    <2> HIDE DEF A, B, C
    <2> QED BY <1>5, <1>6, <1>7, AtMostOne
  <1> HIDE DEF A, B, C
  <1> QED BY <1>1, <1>8, <1>9, <1>10, <1>11

\* For any number of children, packets, timeouts and failures: a packet that was handed to a
\* synchronization filter is in exactly one place, until its child fails, and the packets of
\* a child leave the filter in the order in which they came (Filter::push_Packets,
\* sfilter_WaitForAll, sfilter_TimeOut).
THEOREM ExactlyOnceInOrderTheorem == Spec => []ExactlyOnceInOrder
  <1>1. ASSUME SyncInv, CountInv, OnceInv PROVE ExactlyOnce
    <2> SUFFICES ASSUME NEW c \in Children, NEW n \in 1..sent[c]
                 PROVE  Copies(<<c, n>>) \in (IF pc[c] = "place" /\ n = sent[c] THEN {0}
                                              ELSE IF c \in gone THEN {0, 1} ELSE {1})
      BY DEF ExactlyOnce
    <2>1. sent[c] \in Nat
      BY <1>1, Shapes DEF SyncInv
    <2>2. Given(c, n) <=> ~(pc[c] = "place" /\ n = sent[c])
      BY <2>1 DEF Given
    <2> QED BY <1>1, <2>2, CountCopies
  <1>2. ASSUME SyncInv, OnceInv PROVE ChildOrder
    <2> SUFFICES ASSUME NEW o \in Outputs, NEW p \in o, p[1] # Local
                 PROVE  \A i \in DOMAIN slots[p[1]] : p[2] < slots[p[1]][i][2]
      BY DEF ChildOrder
    <2>1. o \subseteq Threads \X Nat
      BY <1>2 DEF Outputs, SyncInv, TypeOK, OutputSet
    <2>2. p[1] # Det /\ Earlier(o)
      BY <1>2 DEF Outputs, OnceInv, SendersInv, OutInv
    <2>3. p[1] \in Children /\ p[2] \in Nat /\ p = <<p[1], p[2]>>
      BY <2>1, <2>2 DEF Threads
    <2> QED BY <2>2, <2>3 DEF Earlier
  <1>3. SyncInv /\ CountInv /\ OnceInv => ExactlyOnceInOrder
    BY <1>1, <1>2 DEF ExactlyOnceInOrder
  <1> QED
    BY <1>3, SyncInvariant, CountInvariant, OnceInvariant, PTL


------------------------------------------------------------------------------
\* The comparison of the sizes: a wave that it releases has a packet of every peer, or one of
\* a child that is no longer a peer.
LEMMA JudgeComplete ==
  ASSUME SyncInv, OnceInv, NEW t \in Threads, Judge(t), hand'[t].counted
  PROVE  LET from == {p[1] : p \in hand'[t].packets}
         IN  hand'[t].peers \subseteq from \/ ~(from \subseteq hand'[t].peers \cup {Local})
  <1> USE DEF SyncInv
  <1> DEFINE with == IF kind = "TIMEOUT" THEN seen ELSE peers
             out == IF ~Complete(t, with) THEN {} ELSE IF t = Det THEN Held ELSE Heads
             from == {p[1] : p \in hand'[t].packets}
  <1>1. hand'[t] = IF out = {} THEN Nothing ELSE Output(out, with, t # Det)
    BY DEF Judge, TypeOK
  <1>2. /\ out # {} /\ t # Det /\ hand'[t].packets = out /\ hand'[t].peers = with
    <2> HIDE DEF out, with
    <2>1. CASE out = {}
      <3>1. Nothing.counted = FALSE
        BY DEF Nothing, Output
      <3>2. hand'[t].counted = FALSE
        BY <1>1, <2>1, <3>1
      <3> QED BY <3>2
    <2>2. CASE out # {}
      <3> DEFINE b == t # Det
      <3>1. hand'[t] = Output(out, with, b)
        BY <1>1, <2>2
      <3> HIDE DEF b
      <3>2. hand'[t].counted = b /\ hand'[t].packets = out /\ hand'[t].peers = with
        BY <3>1 DEF Output
      <3>3. b
        BY <3>2
      <3>4. t # Det
        BY <3>3 DEF b
      <3> QED BY <2>2, <3>2, <3>4
    <2> QED BY <2>1, <2>2
  <1>3. out = Heads /\ Cardinality(ready) >= Cardinality(with)
    BY <1>2 DEF Complete
  <1>4. with \subseteq Children /\ ready \subseteq Children /\ Local \notin Children
    BY ThreadsAssumption DEF TypeOK
  <1>5. from = ready
    <2>1. ASSUME NEW c \in Children, slots[c] # <<>> PROVE Head(slots[c])[1] = c
      <3>1. slots[c] \in Seq(Children \X Nat)
        BY DEF TypeOK
      <3>2. 1 \in DOMAIN slots[c] /\ Head(slots[c]) = slots[c][1]
        BY <2>1, <3>1
      <3> QED BY <3>2 DEF OnceInv, SlotInv
    <2>2. ready = {c \in Children : slots[c] # <<>>}
      BY DEF FilterInv
    <2>3. from = {p[1] : p \in Heads}
      BY <1>2, <1>3
    <2> HIDE DEF from
    <2> QED BY <2>1, <2>2, <2>3 DEF Heads
  <1>6. ASSUME ready \subseteq with PROVE with = ready
    <2>1. IsFiniteSet(with) /\ IsFiniteSet(ready)
      BY <1>4, ChildrenAssumption, FS_Subset
    <2> HIDE DEF with
    <2>2. /\ Cardinality(ready) <= Cardinality(with)
          /\ Cardinality(ready) = Cardinality(with) => ready = with
      BY <1>6, <2>1, FS_Subset
    <2>3. Cardinality(ready) \in Nat /\ Cardinality(with) \in Nat
      BY <2>1, FS_CardinalityType
    <2> QED BY <1>3, <2>2, <2>3
  <1> HIDE DEF with, from
  <1>7. from \subseteq with \cup {Local} => with \subseteq from
    BY <1>4, <1>5, <1>6
  <1> QED BY <1>2, <1>7 DEF from

\* For any number of children and failures: the wave that the comparison of the sizes
\* releases, and that is transformed after the filter's mutex was released, has a packet of
\* every peer it was compared with, or carries one of a child that is no peer any more
\* (sfilter_WaitForAll, sfilter_TimeOut).
THEOREM WaveCompleteTheorem == Spec => []WaveComplete
  <1> DEFINE Whole(h) == h.counted => LET from == {p[1] : p \in h.packets}
                                      IN  h.peers \subseteq from \/ ~(from \subseteq h.peers \cup {Local})
  <1>1. Init => WaveComplete
    BY DEF Init, WaveComplete, Nothing, Output
  <1>2. SyncInv /\ OnceInv /\ WaveComplete /\ [Next]_vars => WaveComplete'
    <2> SUFFICES ASSUME SyncInv, OnceInv, WaveComplete, [Next]_vars PROVE WaveComplete'
      OBVIOUS
    <2>1. hand \in [Threads -> OutputSet]
      BY DEF SyncInv, TypeOK
    <2>2. \A t \in Threads : Whole(hand[t])
      BY DEF WaveComplete
    <2>3. Whole(Nothing) /\ \A o : Whole(Output(o, {}, FALSE))
      BY DEF Nothing, Output
    <2>4. ASSUME NEW t \in Threads, Judge(t) PROVE Whole(hand'[t]) /\ \A u \in Threads : u # t => hand'[u] = hand[u]
      <3>1. \A u \in Threads : u # t => hand'[u] = hand[u]
        BY <2>4 DEF Judge
      <3> QED BY <2>4, <3>1, JudgeComplete
    <2>5. ASSUME NEW t \in Threads, Push(t), ~Judge(t)
          PROVE  \A u \in Threads : Whole(hand'[u])
      <3>1. \A u \in Threads : hand'[u] \in {hand[u], Nothing} \/ \E o : hand'[u] = Output(o, {}, FALSE)
        BY <2>1, <2>5 DEF Push, Enter, Place, Deliver, PassThrough
      <3> HIDE DEF Whole
      <3> QED BY <2>2, <2>3, <3>1
    <2>6. CASE UNCHANGED hand
      <3> QED BY <2>2, <2>6 DEF WaveComplete
    <2>7. UNCHANGED hand \/ \E t \in Threads : Push(t)
      BY DEF Next, handle_Timeout, ChildFailed, RemovePeer, vars
    <2>8. \A u \in Threads : Whole(hand'[u])
      <3> HIDE DEF Whole
      <3> QED BY <2>2, <2>4, <2>5, <2>6, <2>7
    <2> QED BY <2>8 DEF WaveComplete
  <1> QED
    BY <1>1, <1>2, SyncInvariant, OnceInvariant, PTL DEF Spec
=============================================================================
