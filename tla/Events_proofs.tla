---------------------------- MODULE Events_proofs ----------------------------
(***************************************************************************)
(* Proofs about the two halves of event delivery.  EventPipe, for any set  *)
(* of producers and any buffer bound: no notification is lost.  EventMgr,  *)
(* for any event types, functions and depth of nesting: why                *)
(* execute_Callbacks, which counts the callbacks before its loop and       *)
(* erases one-time entries behind its iterator, calls exactly the          *)
(* callbacks that are due.                                                 *)
(***************************************************************************)
EXTENDS EventPipe, EventMgr, SequenceTheorems, WellFoundedInduction, TLAPS

-----------------------------------------------------------------------------
(* EventPipe: the flag and the pipe of an EventPipe. *)

\* The initial state satisfies the inductive invariant.
LEMMA InitNotify == Init => NotifyInv
  <1> SUFFICES ASSUME Init PROVE NotifyInv
    OBVIOUS
  <1>1. TypeOK
    BY ProducersAssumption
    DEF Init, TypeOK, Threads, ProducerLabels, AppLabels, NoOne
  <1>2. LockInv
    BY ProducersAssumption DEF Init, LockInv, Threads, NoOne
  <1>3. PipeInv
    BY ProducersAssumption DEF Init, PipeInv, Threads
  <1>4. NotificationNotLost
    BY DEF Init, NotificationNotLost
  <1> QED
    BY <1>1, <1>2, <1>3, <1>4 DEF NotifyInv

\* A step of a producer preserves the inductive invariant.
LEMMA ProducerNotify ==
  ASSUME NotifyInv, NEW p \in Producers, Push(p) \/ Close(p) \/ SignalStep(p)
  PROVE  NotifyInv'
  <1> USE ProducersAssumption, MaxBufferAssumption
  <1> USE DEF NotifyInv, TypeOK, Threads, ProducerLabels, AppLabels, NoOne, Goto, use
  <1>1. CASE Push(p)
    <2>1. TypeOK' /\ LockInv'
      BY <1>1 DEF Push, LockInv
    <2>2. PipeInv'
      BY <1>1 DEF Push, PipeInv
    <2>3. NotificationNotLost'
      BY <1>1 DEF Push, NotificationNotLost
    <2> QED
      BY <2>1, <2>2, <2>3
  <1>2. CASE Close(p)
    <2>1. TypeOK' /\ LockInv'
      BY <1>2 DEF Close, LockInv
    <2>2. PipeInv'
      BY <1>2 DEF Close, PipeInv
    <2>3. NotificationNotLost'
      BY <1>2 DEF Close, NotificationNotLost
    <2> QED
      BY <2>1, <2>2, <2>3
  <1>3. CASE SignalLock(p)
    <2>1. TypeOK' /\ LockInv'
      BY <1>3 DEF SignalLock, LockInv
    <2>2. PipeInv'
      BY <1>3 DEF SignalLock, PipeInv
    <2>3. NotificationNotLost'
      BY <1>3 DEF SignalLock, NotificationNotLost, PipeInv
    <2> QED
      BY <2>1, <2>2, <2>3
  <1>4. CASE SignalCheck(p)
    <2>1. TypeOK' /\ LockInv'
      BY <1>4 DEF SignalCheck, LockInv
    <2>2. PipeInv'
      BY <1>4 DEF SignalCheck, PipeInv
    <2>3. NotificationNotLost'
      BY <1>4 DEF SignalCheck, NotificationNotLost, PipeInv
    <2> QED
      BY <2>1, <2>2, <2>3
  <1>5. CASE SignalWrite(p)
    <2>1. TypeOK' /\ LockInv'
      BY <1>5 DEF SignalWrite, LockInv
    <2>2. \A q \in Producers : pc[q] # "set"
      BY <1>5 DEF SignalWrite, LockInv
    <2>3. PipeInv'
      BY <1>5, <2>2 DEF SignalWrite, PipeInv
    <2>4. NotificationNotLost'
      BY <1>5, <2>2 DEF SignalWrite, NotificationNotLost, PipeInv
    <2> QED
      BY <2>1, <2>3, <2>4
  <1>6. CASE SignalSet(p)
    <2>1. TypeOK' /\ LockInv'
      BY <1>6 DEF SignalSet, LockInv
    <2>2. \A q \in Producers : q # p => pc[q] \notin {"write", "set"}
      BY <1>6 DEF SignalSet, LockInv
    <2>3. PipeInv'
      BY <1>6, <2>2 DEF SignalSet, PipeInv
    <2>4. NotificationNotLost'
      BY <1>6 DEF SignalSet, NotificationNotLost, PipeInv
    <2> QED
      BY <2>1, <2>3, <2>4
  <1>7. CASE SignalUnlock(p)
    <2>1. TypeOK' /\ LockInv'
      BY <1>7 DEF SignalUnlock, LockInv
    <2>2. PipeInv'
      BY <1>7 DEF SignalUnlock, PipeInv
    <2>3. NotificationNotLost'
      BY <1>7 DEF SignalUnlock, NotificationNotLost
    <2> QED
      BY <2>1, <2>2, <2>3
  <1> QED
    BY <1>1, <1>2, <1>3, <1>4, <1>5, <1>6, <1>7 DEF SignalStep

\* A step of the application preserves the inductive invariant.
LEMMA AppNotify == ASSUME NotifyInv, AppStep PROVE NotifyInv'
  <1> USE ProducersAssumption, MaxBufferAssumption
  <1> USE DEF NotifyInv, TypeOK, Threads, ProducerLabels, AppLabels, NoOne, Goto, use
  <1>0. ASSUME NEW l \in AppLabels, pc' = [pc EXCEPT !["app"] = l], UNCHANGED sigLock
        PROVE  LockInv'
    BY <1>0 DEF LockInv
  <1>1. TypeOK' /\ LockInv'
    <2>1. CASE RequestFd
      BY <2>1, <1>0 DEF RequestFd
    <2>2. CASE Select
      BY <2>2, <1>0 DEF Select
    <2>3. CASE Recv
      BY <2>3, <1>0 DEF Recv
    <2>4. CASE ClearCheck
      BY <2>4, <1>0 DEF ClearCheck
    <2>5. CASE ClearRead
      BY <2>5, <1>0 DEF ClearRead
    <2>6. CASE ClearSet
      BY <2>6, <1>0 DEF ClearSet
    <2> QED
      BY <2>1, <2>2, <2>3, <2>4, <2>5, <2>6 DEF AppStep
  <1>2. PipeInv'
    <2>1. CASE RequestFd \/ Select \/ Recv \/ ClearCheck
      BY <2>1 DEF RequestFd, Select, Recv, ClearCheck, PipeInv
    <2>2. CASE ClearRead
      BY <2>2 DEF ClearRead, PipeInv
    <2>3. CASE ClearSet
      <3>1. \A p \in Producers : pc[p] # "set"
        BY <2>3 DEF ClearSet, PipeInv
      <3> QED
        BY <2>3, <3>1 DEF ClearSet, PipeInv
    <2> QED
      BY <2>1, <2>2, <2>3 DEF AppStep
  <1>3. NotificationNotLost'
    <2>1. ~lateRequest => pc["app"] # "request"
      BY DEF PipeInv
    <2> QED
      BY <2>1 DEF AppStep, RequestFd, Select, Recv, ClearCheck, ClearRead, ClearSet,
                  NotificationNotLost
  <1> QED
    BY <1>1, <1>2, <1>3

\* NotifyInv is an invariant of the specification.
THEOREM NotifyInvariant == Spec => []NotifyInv
  <1>1. NotifyInv /\ [Next]_vars => NotifyInv'
    <2> SUFFICES ASSUME NotifyInv, [Next]_vars PROVE NotifyInv'
      OBVIOUS
    <2>1. CASE Next
      BY <2>1, ProducerNotify, AppNotify DEF Next
    <2>2. CASE UNCHANGED vars
      BY <2>2 DEF vars, use, NotifyInv, TypeOK, LockInv, PipeInv, NotificationNotLost
    <2> QED
      BY <2>1, <2>2
  <1> QED
    BY InitNotify, <1>1, PTL DEF Spec

\* Type correctness of the notification pipe.
THEOREM TypeCorrect == Spec => []TypeOK
  <1>1. NotifyInv => TypeOK
    BY DEF NotifyInv
  <1> QED
    BY NotifyInvariant, <1>1, PTL

\* The pipe holds at most one byte, and EventPipe::clear never blocks in read().
THEOREM PipeCorrect == Spec => []PipeMatchesFlag
  <1>1. NotifyInv => PipeMatchesFlag
    BY DEF NotifyInv, TypeOK, PipeInv, PipeMatchesFlag
  <1> QED
    BY NotifyInvariant, <1>1, PTL

\* When the pipe exists before the first packet arrives, no notification is lost,
\* whatever the number of threads that deliver packets.
THEOREM NothingLost == Spec => []NotificationNotLost
  <1>1. NotifyInv => NotificationNotLost
    BY DEF NotifyInv
  <1> QED
    BY NotifyInvariant, <1>1, PTL

-----------------------------------------------------------------------------
(* EventMgr: registering, removing and calling callbacks. *)

Entry == [reg : Nat, func : CbFuncs, once : BOOLEAN]
WalkType == [ty : Types, todo : Nat, li : [reg : Nat, func : CbFuncs \cup {NoFunc}, once : BOOLEAN],
             in : BOOLEAN, due : Seq(Nat), got : Seq(Nat)]

\* How many of its calls a loop has finished.
Done(w) == IF w.in THEN Len(w.got) - 1 ELSE Len(w.got)
\* The iterator of loop w stands at place i of list L, and from there on L has the callbacks
\* that are still due, in their order.
StandsAt(w, L, i) ==
  /\ i \in 1..Len(L) /\ L[i] = w.li /\ i + w.todo <= Len(L) + 1
  /\ \A m \in 0..(w.todo - 1) : w.due[Done(w) + 1 + m] = L[i + m].reg
\* A loop has called what was due so far, in that order, and its iterator is where the rest is.
WalkOK(w, L) ==
  /\ Len(w.due) = Done(w) + w.todo
  /\ Len(w.got) <= Len(w.due) /\ \A m \in 1..Len(w.got) : w.got[m] = w.due[m]
  /\ w.in => w.todo > 0 /\ Len(w.got) > 0
  /\ w.todo > 0 => \E i \in 1..Len(L) : StandsAt(w, L, i)
\* None of the callbacks that a loop still has to call is a one-time callback.
Plain(w, L) == \A i \in 1..Len(L) : StandsAt(w, L, i) => \A m \in 0..(w.todo - 1) : ~L[i + m].once

\* Entries are in the order of registration.
Ordered(L) == \A i, j \in 1..Len(L) : i < j => L[i].reg < L[j].reg
ListsOK ==
  /\ cbs \in [Types -> Seq(Entry)]
  /\ \A t \in Types : Ordered(cbs[t]) /\ \A i \in 1..Len(cbs[t]) : cbs[t][i].reg \in 1..regs
\* A one-time callback is in one list.
OneList ==
  \A t, u \in Types : \A i \in 1..Len(cbs[t]), j \in 1..Len(cbs[u]) :
    cbs[t][i].once /\ cbs[t][i].reg = cbs[u][j].reg => t = u
\* A loop over the same list is under way further out.
Shared(k) == \E j \in 1..(k - 1) : walks[j].ty = walks[k].ty
WalksOK ==
  /\ walks \in Seq(WalkType)
  /\ \A k \in 1..Len(walks) :
       /\ WalkOK(walks[k], cbs[walks[k].ty])
       /\ k < Len(walks) => walks[k].in
       /\ Shared(k) => Plain(walks[k], cbs[walks[k].ty])
\* A one-time callback that has been called and is still in its list is running now.
ShotsOK ==
  /\ \A r \in 1..MaxRegs : r > regs => shots[r] = 0
  /\ \A t \in Types : \A i \in 1..Len(cbs[t]) :
       cbs[t][i].once /\ shots[cbs[t][i].reg] # 0 =>
         \E k \in 1..Len(walks) : walks[k].in /\ walks[k].ty = t /\ walks[k].li = cbs[t][i]

CountsOK == regs \in 0..MaxRegs /\ shots \in [1..MaxRegs -> {0, 1}] /\ meddled \in BOOLEAN
EventInv ==
  /\ CountsOK /\ CallsAreThoseDue
  /\ ~meddled => ListsOK /\ OneList /\ WalksOK /\ ShotsOK

-----------------------------------------------------------------------------
\* A set of numbers that is not empty has a smallest one.
LEMMA SmallestPlace ==
  ASSUME NEW S \in SUBSET Nat, S # {}
  PROVE  \E x \in S : \A y \in S : x <= y
  <1> DEFINE R == OpToRel(<, Nat)
  <1>1. IsWellFoundedOn(R, Nat)
    BY NatLessThanWellFounded, Zenon
  <1>2. R = {ss \in Nat \X Nat : ss[1] < ss[2]}
    BY DEF OpToRel
  <1> HIDE DEF R
  <1>3. PICK x \in S : \A y \in S : ~(<<y, x>> \in R)
    BY <1>1, WFMin
  <1>4. \A y \in S : ~(y < x)
    BY <1>2, <1>3
  <1> QED
    BY <1>4

\* Erasing an entry: the entries before it stay, the ones behind it move up.
LEMMA ErasedList ==
  ASSUME NEW S, NEW L \in Seq(S), NEW i \in 1..Len(L)
  PROVE  /\ RemoveAt(L, i) \in Seq(S) /\ Len(RemoveAt(L, i)) = Len(L) - 1
         /\ \A j \in 1..(Len(L) - 1) : RemoveAt(L, i)[j] = IF j < i THEN L[j] ELSE L[j + 1]
  <1> DEFINE a == SubSeq(L, 1, i - 1)
             b == SubSeq(L, i + 1, Len(L))
  <1>1. a \in Seq(S) /\ Len(a) = i - 1 /\ \A j \in 1..(i - 1) : a[j] = L[j]
    <2>1. \A j \in 1..(i - 1) : L[j] \in S
      OBVIOUS
    <2> QED
      BY <2>1, SubSeqProperties
  <1>2. b \in Seq(S) /\ Len(b) = Len(L) - i /\ \A j \in 1..(Len(L) - i) : b[j] = L[i + j]
    <2>1. \A j \in (i + 1)..Len(L) : L[j] \in S
      OBVIOUS
    <2>2. b \in Seq(S) /\ Len(b) = (IF i + 1 <= Len(L) THEN Len(L) - (i + 1) + 1 ELSE 0)
          /\ \A j \in 1..(Len(L) - (i + 1) + 1) : b[j] = L[(i + 1) + j - 1]
      BY <2>1, SubSeqProperties
    <2> QED
      BY <2>2
  <1> HIDE DEF a, b
  <1>3. /\ a \o b \in Seq(S) /\ Len(a \o b) = Len(a) + Len(b)
        /\ \A j \in 1..(Len(a) + Len(b)) : (a \o b)[j] = IF j <= Len(a) THEN a[j] ELSE b[j - Len(a)]
    BY <1>1, <1>2, ConcatProperties
  <1>4. RemoveAt(L, i) = a \o b
    BY DEF RemoveAt, a, b
  <1>5. \A j \in 1..(Len(L) - 1) : (a \o b)[j] = IF j < i THEN L[j] ELSE L[j + 1]
    <2> SUFFICES ASSUME NEW j \in 1..(Len(L) - 1) PROVE (a \o b)[j] = IF j < i THEN L[j] ELSE L[j + 1]
      OBVIOUS
    <2>0. Len(L) \in Nat /\ j \in Nat /\ i \in Nat
      OBVIOUS
    <2>1. CASE j < i
      BY <1>1, <1>2, <1>3, <2>1
    <2>2. CASE j >= i
      <3>1. j - (i - 1) \in 1..(Len(L) - i) /\ i + (j - (i - 1)) = j + 1
        BY <2>0, <2>2
      <3>2. (a \o b)[j] = b[j - (i - 1)]
        BY <1>1, <1>2, <1>3, <2>2
      <3>3. b[j - (i - 1)] = L[i + (j - (i - 1))]
        BY <1>2, <3>1
      <3> QED
        BY <2>2, <3>1, <3>2, <3>3
    <2>3. j < i \/ j >= i
      BY <2>0
    <2> QED
      BY <2>1, <2>2, <2>3
  <1>6. Len(L) \in Nat /\ i \in Nat
    OBVIOUS
  <1>7. Len(a \o b) = Len(L) - 1
    BY <1>1, <1>2, <1>3, <1>6
  <1> QED
    BY <1>3, <1>4, <1>5, <1>7, Zenon

\* An entry stands at one place of an ordered list.
LEMMA OnePlace ==
  ASSUME NEW L \in Seq(Entry), Ordered(L), NEW i \in 1..Len(L), NEW j \in 1..Len(L), L[i].reg = L[j].reg
  PROVE  i = j
  <1>1. L[i] \in Entry /\ L[j] \in Entry
    BY ElementOfSeq
  <1>2. L[i].reg \in Nat /\ L[j].reg \in Nat
    BY <1>1 DEF Entry
  <1> QED
    BY <1>2 DEF Ordered

\* Erasing keeps the order.
LEMMA ErasedOrdered ==
  ASSUME NEW L \in Seq(Entry), Ordered(L), NEW i \in 1..Len(L)
  PROVE  Ordered(RemoveAt(L, i))
  <1> DEFINE M == RemoveAt(L, i)
  <1>1. Len(M) = Len(L) - 1 /\ \A j \in 1..(Len(L) - 1) : M[j] = IF j < i THEN L[j] ELSE L[j + 1]
    BY ErasedList
  <1> HIDE DEF M
  <1>2. ASSUME NEW j \in 1..Len(M), NEW k \in 1..Len(M), j < k PROVE M[j].reg < M[k].reg
    <2>1. M[j] = L[IF j < i THEN j ELSE j + 1] /\ M[k] = L[IF k < i THEN k ELSE k + 1]
      BY <1>1
    <2>2. ASSUME NEW x \in 1..Len(L), NEW y \in 1..Len(L), x < y PROVE L[x].reg < L[y].reg
      BY <2>2 DEF Ordered
    <2> DEFINE x == IF j < i THEN j ELSE j + 1
               y == IF k < i THEN k ELSE k + 1
    <2>3. x \in 1..Len(L) /\ y \in 1..Len(L) /\ x < y
      BY <1>1, <1>2
    <2> QED
      BY <2>1, <2>2, <2>3
  <1> QED
    BY <1>2 DEF Ordered, M

\* remove_CallbackFunc leaves a list with entries of the old one, in their order.
LEMMA RemovedList ==
  ASSUME NEW L \in Seq(Entry), Ordered(L), NEW f
  PROVE  /\ RemoveFunc(L, f) \in Seq(Entry) /\ Ordered(RemoveFunc(L, f))
         /\ \A i \in 1..Len(RemoveFunc(L, f)) : \E j \in 1..Len(L) : RemoveFunc(L, f)[i] = L[j]
  <1> DEFINE at == {i \in DOMAIN L : L[i].func = f}
             c == CHOOSE i \in at : \A j \in at : i <= j
  <1>1. CASE at = {}
    <2>1. RemoveFunc(L, f) = L
      BY <1>1 DEF RemoveFunc
    <2> QED
      BY <2>1
  <1>2. CASE at # {}
    <2>0. at \in SUBSET Nat /\ at \subseteq 1..Len(L)
      OBVIOUS
    <2>1. c \in 1..Len(L)
      <3> HIDE DEF at
      <3>1. \E i \in at : \A j \in at : i <= j
        BY <1>2, <2>0, SmallestPlace
      <3>2. c \in at
        BY <3>1
      <3> QED
        BY <2>0, <3>2
    <2>2. RemoveFunc(L, f) = RemoveAt(L, c)
      BY <1>2 DEF RemoveFunc
    <2> HIDE DEF c, at
    <2> DEFINE M == RemoveAt(L, c)
    <2>3. M \in Seq(Entry) /\ Len(M) = Len(L) - 1 /\ \A j \in 1..(Len(L) - 1) : M[j] = IF j < c THEN L[j] ELSE L[j + 1]
      BY <2>1, ErasedList
    <2>4. Ordered(M)
      BY <2>1, ErasedOrdered
    <2> HIDE DEF M
    <2>5. \A i \in 1..Len(M) : \E j \in 1..Len(L) : M[i] = L[j]
      BY <2>1, <2>3
    <2> QED
      BY <2>2, <2>3, <2>4, <2>5 DEF M
  <1> QED
    BY <1>1, <1>2

-----------------------------------------------------------------------------
\* The loops, one at a time.

\* A callback registered while a loop is under way goes behind what the loop has to call.
LEMMA AppendedWalk ==
  ASSUME NEW L \in Seq(Entry), NEW e \in Entry, NEW w \in WalkType, WalkOK(w, L), Ordered(L),
         \A i \in 1..Len(L) : L[i].reg < e.reg
  PROVE  WalkOK(w, Append(L, e)) /\ (Plain(w, L) => Plain(w, Append(L, e)))
  <1> DEFINE M == Append(L, e)
  <1>1. Len(M) = Len(L) + 1 /\ Len(L) \in Nat /\ \A i \in 1..Len(L) : M[i] = L[i]
    OBVIOUS
  <1>2. M[Len(L) + 1] = e
    OBVIOUS
  <1>3. w.todo \in Nat /\ Len(w.got) \in Nat /\ w.in \in BOOLEAN
    BY DEF WalkType
  <1> HIDE DEF M
  <1>4. ASSUME NEW i \in 1..Len(L), StandsAt(w, L, i) PROVE StandsAt(w, M, i)
    <2>1. i \in 1..Len(M) /\ M[i] = w.li /\ i + w.todo <= Len(M) + 1
      BY <1>1, <1>3, <1>4 DEF StandsAt
    <2>2. ASSUME NEW m \in 0..(w.todo - 1) PROVE w.due[Done(w) + 1 + m] = M[i + m].reg
      <3>1. i + m \in 1..Len(L)
        BY <1>1, <1>3, <1>4 DEF StandsAt
      <3> QED
        BY <1>1, <1>4, <3>1 DEF StandsAt
    <2> QED
      BY <2>1, <2>2 DEF StandsAt
  <1>5. WalkOK(w, M)
    <2>1. w.todo > 0 => \E i \in 1..Len(M) : StandsAt(w, M, i)
      <3> SUFFICES ASSUME w.todo > 0 PROVE \E i \in 1..Len(M) : StandsAt(w, M, i)
        OBVIOUS
      <3>1. PICK i \in 1..Len(L) : StandsAt(w, L, i)
        BY DEF WalkOK
      <3>2. StandsAt(w, M, i) /\ i \in 1..Len(M)
        BY <1>1, <1>4, <3>1
      <3> QED
        BY <3>2
    <2> QED
      BY <2>1 DEF WalkOK
  <1>6. ASSUME Plain(w, L), NEW i \in 1..Len(M), StandsAt(w, M, i), NEW m \in 0..(w.todo - 1)
        PROVE  ~M[i + m].once
    <2>0. w.todo > 0
      BY <1>3, <1>6
    <2>1. PICK j \in 1..Len(L) : StandsAt(w, L, j)
      BY <2>0 DEF WalkOK
    <2>2. L[j] = w.li /\ M[i] = w.li
      BY <1>6, <2>1 DEF StandsAt
    <2>3. i # Len(L) + 1
      <3>1. L[j] \in Entry
        BY ElementOfSeq
      <3>2. L[j].reg \in Nat /\ e.reg \in Nat /\ L[j].reg < e.reg
        BY <3>1 DEF Entry
      <3> QED
        BY <1>2, <2>2, <3>2
    <2>4. i \in 1..Len(L)
      BY <1>1, <2>3
    <2>5. i = j
      BY <1>1, <2>2, <2>4, OnePlace
    <2>6. i + m \in 1..Len(L)
      BY <1>1, <1>3, <2>1, <2>5 DEF StandsAt
    <2> QED
      BY <1>1, <1>6, <2>1, <2>5, <2>6 DEF Plain
  <1> QED
    BY <1>5, <1>6 DEF Plain, M

\* execute_Callbacks begins: all entries of the list are due.
LEMMA NewWalk ==
  ASSUME NEW L \in Seq(Entry), NEW w \in WalkType, w.todo = Len(L), w.li = Head(L \o <<EndOfList>>),
         w.in = FALSE, w.due = [k \in DOMAIN L |-> L[k].reg], w.got = <<>>
  PROVE  WalkOK(w, L) /\ ((\A k \in 1..Len(L) : ~L[k].once) => Plain(w, L))
  <1>1. Len(L) \in Nat /\ DOMAIN L = 1..Len(L) /\ Len(w.got) = 0 /\ Done(w) = 0
    BY DEF Done
  <1>2. Len(w.due) = Len(L) /\ \A k \in 1..Len(L) : w.due[k] = L[k].reg
    <2>1. w.due \in Seq(Nat) /\ DOMAIN w.due = 1..Len(L)
      BY <1>1 DEF WalkType
    <2>2. DOMAIN w.due = 1..Len(w.due) /\ Len(w.due) \in Nat
      BY <2>1, LenProperties
    <2>3. Len(w.due) = Len(L)
      BY <1>1, <2>1, <2>2
    <2> QED
      BY <1>1, <2>3
  <1>3. Len(L) > 0 => StandsAt(w, L, 1)
    <2> SUFFICES ASSUME Len(L) > 0 PROVE StandsAt(w, L, 1)
      OBVIOUS
    <2>1. Head(L \o <<EndOfList>>) = L[1]
      <3>1. (L \o <<EndOfList>>)[1] = L[1]
        <4>1. L \in Seq(Entry \cup {EndOfList}) /\ <<EndOfList>> \in Seq(Entry \cup {EndOfList})
          BY SeqMonotonic
        <4>2. Len(<<EndOfList>>) = 1
          OBVIOUS
        <4> QED
          BY <1>1, <4>1, <4>2, ConcatProperties
      <3>2. L \o <<EndOfList>> # <<>>
        OBVIOUS
      <3> QED
        BY <3>1, <3>2
    <2> QED
      BY <1>1, <1>2, <2>1 DEF StandsAt
  <1>4. WalkOK(w, L)
    BY <1>1, <1>2, <1>3 DEF WalkOK
  <1>5. ASSUME \A k \in 1..Len(L) : ~L[k].once, NEW i \in 1..Len(L), StandsAt(w, L, i), NEW m \in 0..(w.todo - 1)
        PROVE  ~L[i + m].once
    <2>1. i + m \in 1..Len(L)
      BY <1>1, <1>5 DEF StandsAt
    <2> QED
      BY <1>5, <2>1
  <1> QED
    BY <1>4, <1>5 DEF Plain

\* A callback is called: it is the next one due.
LEMMA CalledWalk ==
  ASSUME NEW L \in Seq(Entry), NEW w \in WalkType, NEW v \in WalkType, WalkOK(w, L), w.in = FALSE, w.todo > 0,
         v.ty = w.ty, v.todo = w.todo, v.li = w.li, v.due = w.due, v.in = TRUE, v.got = Append(w.got, w.li.reg)
  PROVE  WalkOK(v, L) /\ (Plain(w, L) => Plain(v, L))
  <1>1. w.todo \in Nat /\ w.got \in Seq(Nat) /\ w.due \in Seq(Nat) /\ Len(w.got) \in Nat /\ Len(w.due) \in Nat
    BY DEF WalkType
  <1>2. w.li.reg \in Nat
    BY DEF WalkType
  <1>3. Len(v.got) = Len(w.got) + 1 /\ Done(v) = Len(w.got) /\ Done(w) = Len(w.got)
    BY <1>1, <1>2 DEF Done
  <1>4. \A i \in 1..Len(L) : StandsAt(v, L, i) <=> StandsAt(w, L, i)
    BY <1>3 DEF StandsAt
  <1>5. PICK i \in 1..Len(L) : StandsAt(w, L, i)
    BY DEF WalkOK
  <1>6. w.due[Len(w.got) + 1] = w.li.reg
    <2>1. 0 \in 0..(w.todo - 1)
      BY <1>1
    <2>2. w.due[Len(w.got) + 1 + 0] = L[i + 0].reg
      BY <1>3, <1>5, <2>1 DEF StandsAt
    <2>3. L[i] = w.li
      BY <1>5 DEF StandsAt
    <2> QED
      BY <1>1, <2>2, <2>3
  <1>7. \A m \in 1..Len(v.got) : v.got[m] = v.due[m]
    <2> SUFFICES ASSUME NEW m \in 1..Len(v.got) PROVE v.got[m] = v.due[m]
      OBVIOUS
    <2>1. CASE m = Len(w.got) + 1
      <3>1. v.got[Len(w.got) + 1] = w.li.reg
        BY <1>1, <1>2
      <3> QED
        BY <1>6, <2>1, <3>1
    <2>2. CASE m # Len(w.got) + 1
      <3>1. m \in 1..Len(w.got)
        BY <1>1, <1>3, <2>2
      <3>2. v.got[m] = w.got[m]
        BY <1>1, <1>2, <3>1
      <3>3. w.got[m] = w.due[m]
        BY <3>1 DEF WalkOK
      <3> QED
        BY <3>2, <3>3
    <2> QED
      BY <2>1, <2>2
  <1>8. WalkOK(v, L)
    <2>1. Len(w.due) = Len(w.got) + w.todo
      BY <1>3 DEF WalkOK
    <2>2. Len(v.due) = Done(v) + v.todo /\ Len(v.got) <= Len(v.due) /\ v.todo > 0 /\ Len(v.got) > 0
      BY <1>1, <1>3, <2>1
    <2>3. \E j \in 1..Len(L) : StandsAt(v, L, j)
      BY <1>4, <1>5
    <2> QED
      BY <1>7, <2>2, <2>3 DEF WalkOK
  <1> QED
    BY <1>4, <1>8 DEF Plain

\* Where the iterator goes from place i, and the list it leaves behind.
NextPlace(L, i) == IF i = Len(L) THEN EndOfList ELSE L[i + 1]
LeftBehind(L, i) == IF L[i].once THEN RemoveAt(L, i) ELSE L

\* A callback returns: the iterator moves on, and a one-time entry is erased behind it.
LEMMA ReturnedWalk ==
  ASSUME NEW L \in Seq(Entry), Ordered(L), NEW w \in WalkType, NEW v \in WalkType, WalkOK(w, L), w.in = TRUE,
         NEW i \in 1..Len(L), L[i] = w.li,
         v.ty = w.ty, v.due = w.due, v.got = w.got, v.in = FALSE, v.todo = w.todo - 1,
         v.li = NextPlace(L, i)
  PROVE  /\ WalkOK(v, LeftBehind(L, i))
         /\ Plain(w, L) => ~w.li.once /\ Plain(v, LeftBehind(L, i))
  <1> DEFINE M == LeftBehind(L, i)
  <1>0. v.li = (IF i = Len(L) THEN EndOfList ELSE L[i + 1]) /\ M = (IF w.li.once THEN RemoveAt(L, i) ELSE L)
    BY DEF NextPlace, LeftBehind
  <1> HIDE DEF M
  <1>1. w.todo \in Nat /\ w.todo > 0 /\ Len(w.got) \in Nat /\ Len(w.got) > 0 /\ Len(w.due) \in Nat /\ Len(L) \in Nat
    BY DEF WalkType, WalkOK
  <1>2. Done(v) = Len(w.got) /\ Done(w) = Len(w.got) - 1
    BY DEF Done
  <1>3. StandsAt(w, L, i)
    <2>1. PICK j \in 1..Len(L) : StandsAt(w, L, j)
      BY <1>1 DEF WalkOK
    <2>2. L[j] = w.li
      BY <2>1 DEF StandsAt
    <2>3. i = j
      BY <2>2, OnePlace
    <2> QED
      BY <2>1, <2>3
  <1>4. i + w.todo <= Len(L) + 1 /\ \A m \in 0..(w.todo - 1) : w.due[Len(w.got) + m] = L[i + m].reg
    <2>1. \A m \in 0..(w.todo - 1) : w.due[Done(w) + 1 + m] = L[i + m].reg
      BY <1>3 DEF StandsAt
    <2>2. \A m \in 0..(w.todo - 1) : Done(w) + 1 + m = Len(w.got) + m
      BY <1>1, <1>2
    <2> QED
      BY <1>3, <2>1, <2>2 DEF StandsAt
  <1> DEFINE p == IF w.li.once THEN i ELSE i + 1
  <1>5. v.todo > 0 => i < Len(L)
    BY <1>1, <1>4
  <1>6. ASSUME NEW m \in 0..(v.todo - 1)
        PROVE  p + m \in 1..Len(M) /\ M[p + m] = L[i + (m + 1)] /\ m + 1 \in 0..(w.todo - 1)
    <2>0. m \in Nat /\ i \in Nat
      BY <1>1
    <2>1. m + 1 \in 0..(w.todo - 1) /\ i + (m + 1) <= Len(L)
      BY <1>1, <1>4
    <2>2. CASE w.li.once
      <3>1. Len(M) = Len(L) - 1 /\ \A j \in 1..(Len(L) - 1) : M[j] = IF j < i THEN L[j] ELSE L[j + 1]
        BY <1>0, <2>2, ErasedList
      <3>2. i + m \in 1..(Len(L) - 1) /\ ~(i + m < i) /\ (i + m) + 1 = i + (m + 1)
        BY <1>1, <2>1
      <3> QED
        BY <1>0, <2>1, <2>2, <3>1, <3>2
    <2>3. CASE ~w.li.once
      <3>0. \A a, b \in Nat : (a + 1) + b = a + (b + 1) /\ a + (b + 1) >= 1 /\ a + (b + 1) \in Nat
        OBVIOUS
      <3>1. (i + 1) + m = i + (m + 1) /\ i + (m + 1) \in 1..Len(L)
        BY <1>1, <2>0, <2>1, <3>0
      <3> QED
        BY <1>0, <2>1, <2>3, <3>1
    <2> QED
      BY <2>2, <2>3
  <1>7. v.todo > 0 => StandsAt(v, M, p)
    <2> SUFFICES ASSUME v.todo > 0 PROVE StandsAt(v, M, p)
      OBVIOUS
    <2>1. 0 \in 0..(v.todo - 1) /\ v.todo - 1 \in 0..(v.todo - 1)
      BY <1>1
    <2>2. p + 0 = p /\ i + (0 + 1) = i + 1 /\ p \in Nat
      OBVIOUS
    <2>3. p \in 1..Len(M) /\ M[p] = L[i + 1]
      BY <1>6, <2>1, <2>2
    <2>4. M[p] = v.li
      BY <1>0, <1>1, <1>5, <2>3
    <2>5. p + v.todo <= Len(M) + 1
      <3>1. p + (v.todo - 1) \in 1..Len(M)
        BY <1>6, <2>1
      <3> QED
        BY <1>1, <2>2, <3>1
    <2>6. ASSUME NEW m \in 0..(v.todo - 1) PROVE v.due[Done(v) + 1 + m] = M[p + m].reg
      <3>0. m \in Nat
        BY <1>1
      <3>1. \A a, b \in Nat : a + 1 + b = a + (b + 1)
        OBVIOUS
      <3>2. Done(v) + 1 + m = Len(w.got) + (m + 1)
        BY <1>1, <1>2, <3>0, <3>1
      <3> QED
        BY <1>4, <1>6, <3>2
    <2> QED
      BY <2>3, <2>4, <2>5, <2>6 DEF StandsAt
  <1>8. WalkOK(v, M)
    <2>1. Len(v.due) = Done(v) + v.todo
      BY <1>1, <1>2 DEF WalkOK
    <2>2. v.todo > 0 => \E j \in 1..Len(M) : StandsAt(v, M, j)
      BY <1>7 DEF StandsAt
    <2> QED
      BY <2>1, <2>2 DEF WalkOK
  <1>9. ASSUME Plain(w, L) PROVE ~w.li.once /\ Plain(v, M)
    <2>1. \A m \in 0..(w.todo - 1) : ~L[i + m].once
      BY <1>3, <1>9 DEF Plain
    <2>2. ~w.li.once
      <3>1. 0 \in 0..(w.todo - 1) /\ i + 0 = i
        BY <1>1
      <3> QED
        BY <2>1, <3>1
    <2>3. ASSUME NEW j \in 1..Len(M), StandsAt(v, M, j), NEW m \in 0..(v.todo - 1) PROVE ~M[j + m].once
      <3>1. M = L /\ p = i + 1
        BY <1>0, <2>2
      <3>2. v.todo > 0
        BY <1>1, <2>3
      <3>3. M[j] = v.li /\ M[p] = v.li /\ p \in 1..Len(M)
        BY <1>7, <2>3, <3>2 DEF StandsAt
      <3>4. j = p
        BY <3>1, <3>3, OnePlace
      <3> QED
        BY <1>6, <2>1, <3>4
    <2> QED
      BY <2>2, <2>3 DEF Plain
  <1> QED
    BY <1>8, <1>9 DEF M

\* A loop that is over has called exactly what was due.
LEMMA FinishedWalk ==
  ASSUME NEW L, NEW w \in WalkType, WalkOK(w, L), w.in = FALSE, ~(w.todo > 0)
  PROVE  w.due = w.got
  <1>1. w.todo = 0 /\ w.got \in Seq(Nat) /\ w.due \in Seq(Nat) /\ Len(w.got) \in Nat
    BY DEF WalkType
  <1>2. Len(w.due) = Len(w.got) /\ \A m \in 1..Len(w.got) : w.got[m] = w.due[m]
    BY <1>1 DEF WalkOK, Done
  <1> QED
    BY <1>1, <1>2, SeqEqual

-----------------------------------------------------------------------------
\* The steps.

\* The types of a loop's state.
LEMMA WalkTyped ==
  ASSUME WalksOK, NEW k \in 1..Len(walks)
  PROVE  walks[k] \in WalkType /\ walks[k].ty \in Types /\ walks[k].in \in BOOLEAN /\ walks[k].todo \in Nat
  <1>1. walks[k] \in WalkType
    BY ElementOfSeq DEF WalksOK
  <1>2. walks[k].ty \in Types /\ walks[k].todo \in Nat
    BY <1>1 DEF WalkType
  <1>3. walks[k].in \in BOOLEAN
    BY <1>1 DEF WalkType
  <1> QED
    BY <1>1, <1>2, <1>3

\* At the start no callback is registered and no loop is under way.
LEMMA InitEvent == EventInit => EventInv
  <1> SUFFICES ASSUME EventInit PROVE EventInv
    OBVIOUS
  <1>1. CountsOK /\ CallsAreThoseDue
    <2>1. regs \in 0..MaxRegs /\ shots \in [1..MaxRegs -> {0, 1}]
      BY EventAssumption DEF EventInit
    <2>2. meddled \in BOOLEAN
      BY DEF EventInit
    <2>3. CallsAreThoseDue
      BY DEF EventInit, CallsAreThoseDue
    <2> QED
      BY <2>1, <2>2, <2>3 DEF CountsOK
  <1>2. \A t \in Types : cbs[t] = <<>> /\ Len(cbs[t]) = 0
    BY DEF EventInit
  <1>3. ListsOK
    BY <1>2 DEF EventInit, ListsOK, Ordered
  <1>4. OneList /\ ShotsOK
    BY <1>2 DEF EventInit, OneList, ShotsOK
  <1>5. WalksOK
    BY DEF EventInit, WalksOK
  <1> QED
    BY <1>1, <1>3, <1>4, <1>5 DEF EventInv

\* Taking events from the queue leaves the callbacks alone.
LEMMA QuietEvent ==
  ASSUME EventInv, UNCHANGED <<cbs, walks, regs, walked, shots, meddled>>
  PROVE  EventInv'
  <1>1. CountsOK' /\ CallsAreThoseDue'
    BY DEF EventInv, CountsOK, CallsAreThoseDue
  <1> SUFFICES ASSUME ~meddled' PROVE ListsOK' /\ OneList' /\ WalksOK' /\ ShotsOK'
    BY <1>1 DEF EventInv
  <1>2. ListsOK /\ OneList /\ WalksOK /\ ShotsOK
    BY DEF EventInv
  <1>3. ListsOK' /\ OneList'
    BY <1>2 DEF ListsOK, OneList
  <1>4. WalksOK'
    BY <1>2 DEF WalksOK, Shared
  <1>5. ShotsOK'
    BY <1>2 DEF ShotsOK
  <1> QED
    BY <1>3, <1>4, <1>5

\* A new registration comes last in order.
LEMMA AppendedOrdered ==
  ASSUME NEW L \in Seq(Entry), NEW e \in Entry, Ordered(L), \A i \in 1..Len(L) : L[i].reg < e.reg
  PROVE  Ordered(Append(L, e))
  <1> DEFINE M == Append(L, e)
  <1>1. Len(M) = Len(L) + 1 /\ Len(L) \in Nat /\ \A i \in 1..Len(L) : M[i] = L[i]
    OBVIOUS
  <1>2. M[Len(L) + 1] = e
    OBVIOUS
  <1> HIDE DEF M
  <1>3. ASSUME NEW i \in 1..Len(M), NEW j \in 1..Len(M), i < j PROVE M[i].reg < M[j].reg
    <2>1. i \in 1..Len(L) /\ M[i] = L[i]
      BY <1>1, <1>3
    <2>2. CASE j = Len(L) + 1
      BY <1>2, <2>1, <2>2
    <2>3. CASE j # Len(L) + 1
      <3>1. j \in 1..Len(L) /\ M[j] = L[j]
        BY <1>1, <2>3
      <3> QED
        BY <1>3, <2>1, <3>1 DEF Ordered
    <2> QED
      BY <2>2, <2>3
  <1> QED
    BY <1>3 DEF Ordered, M

\* register_Callback: the new entry goes behind the others, a one-time entry into one list.
LEMMA RegisterKeeps ==
  ASSUME EventInv, ~meddled, register_Callback
  PROVE  EventInv'
  <1>0. CountsOK /\ CallsAreThoseDue /\ ListsOK /\ OneList /\ WalksOK /\ ShotsOK
    BY DEF EventInv
  <1>1. regs' = regs + 1 /\ regs < MaxRegs /\ UNCHANGED <<walks, walked, shots, meddled>> /\ MaxRegs \in Nat /\ regs \in Nat
    BY <1>0, EventAssumption DEF register_Callback, CountsOK
  <1>2. CountsOK' /\ CallsAreThoseDue'
    BY <1>0, <1>1 DEF CountsOK, CallsAreThoseDue
  <1>3. PICK c \in DOMAIN EventTypes, f \in CbFuncs, once \in BOOLEAN :
          \E ty \in EventTypes[c] \cup {EVENT_TYPE_ALL} :
            /\ Registrable(ty, once)
            /\ cbs' = [t \in Types |-> IF t[1] = c /\ ty \in {t[2], EVENT_TYPE_ALL}
                                       THEN Append(cbs[t], [reg |-> regs + 1, func |-> f, once |-> once]) ELSE cbs[t]]
    BY DEF register_Callback
  <1>4. PICK ty \in EventTypes[c] \cup {EVENT_TYPE_ALL} :
            /\ Registrable(ty, once)
            /\ cbs' = [t \in Types |-> IF t[1] = c /\ ty \in {t[2], EVENT_TYPE_ALL}
                                       THEN Append(cbs[t], [reg |-> regs + 1, func |-> f, once |-> once]) ELSE cbs[t]]
    BY <1>3
  <1> DEFINE e == [reg |-> regs + 1, func |-> f, once |-> once]
  <1>5. e \in Entry /\ e.reg = regs + 1 /\ e.once = once
    BY <1>1 DEF Entry
  <1> HIDE DEF e
  <1> DEFINE in(t) == t[1] = c /\ ty \in {t[2], EVENT_TYPE_ALL}
  <1>6. \A t \in Types : cbs'[t] = IF in(t) THEN Append(cbs[t], e) ELSE cbs[t]
    BY <1>4 DEF e
  <1>7. \A t, u \in Types : once /\ in(t) /\ in(u) => t = u
    <2> SUFFICES ASSUME NEW t \in Types, NEW u \in Types, once, in(t), in(u) PROVE t = u
      OBVIOUS
    <2>1. t = <<t[1], t[2]>> /\ u = <<u[1], u[2]>>
      BY DEF Types
    <2>2. ty = t[2] /\ ty = u[2]
      BY <1>4 DEF Registrable
    <2> QED
      BY <2>1, <2>2
  <1> HIDE DEF in
  <1>8. \A t \in Types : cbs[t] \in Seq(Entry) /\ Ordered(cbs[t]) /\ \A i \in 1..Len(cbs[t]) : cbs[t][i].reg \in 1..regs
    BY <1>0 DEF ListsOK
  <1>9. \A t \in Types : \A i \in 1..Len(cbs[t]) : cbs[t][i].reg < e.reg
    BY <1>1, <1>5, <1>8
  <1>10. \A t \in Types : \A i \in 1..Len(cbs'[t]) :
           \/ i \in 1..Len(cbs[t]) /\ cbs'[t][i] = cbs[t][i]
           \/ in(t) /\ cbs'[t][i] = e
    <2> SUFFICES ASSUME NEW t \in Types, NEW i \in 1..Len(cbs'[t])
                 PROVE  \/ i \in 1..Len(cbs[t]) /\ cbs'[t][i] = cbs[t][i]
                        \/ in(t) /\ cbs'[t][i] = e
      OBVIOUS
    <2>1. CASE in(t)
      <3>1. cbs'[t] = Append(cbs[t], e) /\ cbs[t] \in Seq(Entry)
        BY <1>6, <1>8, <2>1
      <3> QED
        BY <1>5, <2>1, <3>1
    <2>2. CASE ~in(t)
      BY <1>6, <2>2
    <2> QED
      BY <2>1, <2>2
  <1>11. ListsOK'
    <2>1. cbs' \in [Types -> Seq(Entry)]
      <3>1. \A t \in Types : cbs'[t] \in Seq(Entry)
        <4> SUFFICES ASSUME NEW t \in Types PROVE cbs'[t] \in Seq(Entry)
          OBVIOUS
        <4>1. cbs[t] \in Seq(Entry) /\ (cbs'[t] = Append(cbs[t], e) \/ cbs'[t] = cbs[t])
          BY <1>6, <1>8
        <4>2. Append(cbs[t], e) \in Seq(Entry)
          BY <1>5, <4>1
        <4> QED
          BY <4>1, <4>2
      <3>2. cbs' = [t \in Types |-> cbs'[t]]
        BY <1>4
      <3> QED
        BY <3>1, <3>2
    <2>2. \A t \in Types : Ordered(cbs'[t])
      BY <1>5, <1>6, <1>8, <1>9, AppendedOrdered
    <2>3. \A t \in Types : \A i \in 1..Len(cbs'[t]) : cbs'[t][i].reg \in 1..(regs + 1)
      BY <1>1, <1>5, <1>8, <1>10
    <2> QED
      BY <1>1, <2>1, <2>2, <2>3 DEF ListsOK
  <1>12. OneList'
    <2> SUFFICES ASSUME NEW t \in Types, NEW u \in Types, NEW i \in 1..Len(cbs'[t]), NEW j \in 1..Len(cbs'[u]),
                        cbs'[t][i].once, cbs'[t][i].reg = cbs'[u][j].reg
                 PROVE  t = u
      BY DEF OneList
    <2>1. CASE cbs'[t][i] = e
      <3>1. ~(j \in 1..Len(cbs[u]) /\ cbs'[u][j] = cbs[u][j])
        BY <1>1, <1>5, <1>8, <2>1
      <3>2. in(u)
        BY <1>10, <3>1
      <3>3. ~(i \in 1..Len(cbs[t]) /\ cbs'[t][i] = cbs[t][i])
        BY <1>1, <1>5, <1>8, <2>1
      <3>4. in(t)
        BY <1>10, <3>3
      <3> QED
        BY <1>5, <1>7, <2>1, <3>2, <3>4
    <2>2. CASE i \in 1..Len(cbs[t]) /\ cbs'[t][i] = cbs[t][i]
      <3>1. cbs'[u][j] # e
        BY <1>1, <1>5, <1>8, <2>2
      <3>2. j \in 1..Len(cbs[u]) /\ cbs'[u][j] = cbs[u][j]
        BY <1>10, <3>1
      <3> QED
        BY <1>0, <2>2, <3>2 DEF OneList
    <2> QED
      BY <1>10, <2>1, <2>2
  <1>13. WalksOK'
    <2>1. \A k \in 1..Len(walks) : walks[k] \in WalkType /\ walks[k].ty \in Types
      BY <1>0, WalkTyped
    <2>2. ASSUME NEW k \in 1..Len(walks)
          PROVE  /\ WalkOK(walks[k], cbs'[walks[k].ty])
                 /\ Plain(walks[k], cbs[walks[k].ty]) => Plain(walks[k], cbs'[walks[k].ty])
      <3> DEFINE w == walks[k]
                 L == cbs[walks[k].ty]
      <3>1. w \in WalkType /\ L \in Seq(Entry) /\ WalkOK(w, L) /\ Ordered(L) /\ \A i \in 1..Len(L) : L[i].reg < e.reg
        BY <1>0, <1>8, <1>9, <2>1 DEF WalksOK
      <3>2. cbs'[w.ty] = Append(L, e) \/ cbs'[w.ty] = L
        BY <1>6, <2>1
      <3> HIDE DEF w, L
      <3>3. WalkOK(w, Append(L, e)) /\ (Plain(w, L) => Plain(w, Append(L, e)))
        BY <1>5, <3>1, AppendedWalk
      <3> QED
        BY <3>1, <3>2, <3>3 DEF w, L
    <2> QED
      BY <1>0, <1>1, <2>1, <2>2 DEF WalksOK, Shared
  <1>14. ShotsOK'
    <2>1. \A r \in 1..MaxRegs : r > regs' => shots'[r] = 0
      BY <1>0, <1>1 DEF ShotsOK
    <2>2. ASSUME NEW t \in Types, NEW i \in 1..Len(cbs'[t]), cbs'[t][i].once, shots[cbs'[t][i].reg] # 0
          PROVE  \E k \in 1..Len(walks) : walks[k].in /\ walks[k].ty = t /\ walks[k].li = cbs'[t][i]
      <3>1. cbs'[t][i] # e
        BY <1>0, <1>1, <1>5, <2>2 DEF ShotsOK
      <3>2. i \in 1..Len(cbs[t]) /\ cbs'[t][i] = cbs[t][i]
        BY <1>10, <3>1
      <3> QED
        BY <1>0, <2>2, <3>2 DEF ShotsOK
    <2> QED
      BY <1>1, <2>1, <2>2 DEF ShotsOK
  <1> QED
    BY <1>2, <1>11, <1>12, <1>13, <1>14 DEF EventInv

\* What the removal of callbacks makes of each list.
LEMMA RemovalLists ==
  ASSUME ListsOK, remove_Callback
  PROVE  /\ cbs' \in [Types -> Seq(Entry)]
         /\ \A t \in Types : Ordered(cbs'[t]) /\ \A i \in 1..Len(cbs'[t]) : \E j \in 1..Len(cbs[t]) : cbs'[t][i] = cbs[t][j]
  <1>1. PICK f, T :
          cbs' = [t \in Types |-> IF t \in T THEN IF f = NoFunc THEN <<>> ELSE RemoveFunc(cbs[t], f) ELSE cbs[t]]
    <2>1. \E c, ty, f : cbs' = Without(c, ty, f)
      BY DEF remove_Callback
    <2>2. PICK c, ty, f : cbs' = Without(c, ty, f)
      BY <2>1
    <2> DEFINE T == {t \in Types : c \in {t[1], EVENT_CLASS_ALL} /\ ty \in {t[2], EVENT_TYPE_ALL}}
    <2>3. cbs' = [t \in Types |-> IF t \in T THEN IF f = NoFunc THEN <<>> ELSE RemoveFunc(cbs[t], f) ELSE cbs[t]]
      BY <2>2 DEF Without
    <2> QED
      BY <2>3
  <1>2. ASSUME NEW t \in Types
        PROVE  /\ cbs'[t] \in Seq(Entry) /\ Ordered(cbs'[t])
               /\ \A i \in 1..Len(cbs'[t]) : \E j \in 1..Len(cbs[t]) : cbs'[t][i] = cbs[t][j]
    <2>1. cbs[t] \in Seq(Entry) /\ Ordered(cbs[t])
      BY DEF ListsOK
    <2>2. CASE cbs'[t] = cbs[t]
      BY <2>1, <2>2
    <2>3. CASE cbs'[t] = <<>>
      <3>1. <<>> \in Seq(Entry) /\ Len(<<>>) = 0
        OBVIOUS
      <3>2. Ordered(<<>>)
        BY DEF Ordered
      <3> QED
        BY <2>3, <3>1, <3>2
    <2>4. CASE cbs'[t] = RemoveFunc(cbs[t], f)
      BY <2>1, <2>4, RemovedList
    <2>5. cbs'[t] \in {cbs[t], <<>>, RemoveFunc(cbs[t], f)}
      BY <1>1
    <2> QED
      BY <2>2, <2>3, <2>4, <2>5
  <1>3. cbs' = [t \in Types |-> cbs'[t]]
    BY <1>1
  <1> QED
    BY <1>2, <1>3

\* remove_Callback, remove_Callbacks: the lists that are being walked keep their entries, or the
\* model stops.
LEMMA RemoveKeeps ==
  ASSUME EventInv, ~meddled, remove_Callback
  PROVE  EventInv'
  <1>0. CountsOK /\ CallsAreThoseDue /\ ListsOK /\ OneList /\ WalksOK /\ ShotsOK
    BY DEF EventInv
  <1>1. UNCHANGED <<walks, regs, walked, shots>>
    BY DEF remove_Callback
  <1>2. meddled' = (meddled \/ \E t \in Types : BeingWalked(t) /\ cbs'[t] # cbs[t])
    BY DEF remove_Callback
  <1>3. CountsOK' /\ CallsAreThoseDue'
    <2>1. meddled' \in BOOLEAN
      BY <1>2
    <2> QED
      BY <1>0, <1>1, <2>1 DEF CountsOK, CallsAreThoseDue
  <1> SUFFICES ASSUME ~meddled' PROVE ListsOK' /\ OneList' /\ WalksOK' /\ ShotsOK'
    BY <1>3 DEF EventInv
  <1>4. \A t \in Types : BeingWalked(t) => cbs'[t] = cbs[t]
    BY <1>2
  <1>5. /\ cbs' \in [Types -> Seq(Entry)]
        /\ \A t \in Types : Ordered(cbs'[t]) /\ \A i \in 1..Len(cbs'[t]) : \E j \in 1..Len(cbs[t]) : cbs'[t][i] = cbs[t][j]
    BY <1>0, RemovalLists
  <1>6. ListsOK'
    <2>1. \A t \in Types : \A i \in 1..Len(cbs'[t]) : cbs'[t][i].reg \in 1..regs
      BY <1>0, <1>5 DEF ListsOK
    <2> QED
      BY <1>1, <1>5, <2>1 DEF ListsOK
  <1>7. OneList'
    <2> SUFFICES ASSUME NEW t \in Types, NEW u \in Types, NEW i \in 1..Len(cbs'[t]), NEW j \in 1..Len(cbs'[u]),
                        cbs'[t][i].once, cbs'[t][i].reg = cbs'[u][j].reg
                 PROVE  t = u
      BY DEF OneList
    <2>1. PICK x \in 1..Len(cbs[t]) : cbs'[t][i] = cbs[t][x]
      BY <1>5
    <2>2. PICK y \in 1..Len(cbs[u]) : cbs'[u][j] = cbs[u][y]
      BY <1>5
    <2> QED
      BY <1>0, <2>1, <2>2 DEF OneList
  <1>8. WalksOK'
    <2>1. ASSUME NEW k \in 1..Len(walks) PROVE cbs'[walks[k].ty] = cbs[walks[k].ty]
      <3>1. walks[k].ty \in Types /\ k \in DOMAIN walks
        BY <1>0, WalkTyped DEF WalksOK
      <3> QED
        BY <1>4, <3>1 DEF BeingWalked
    <2> QED
      BY <1>0, <1>1, <2>1 DEF WalksOK, Shared
  <1>9. ShotsOK'
    <2>1. ASSUME NEW t \in Types, NEW i \in 1..Len(cbs'[t]), cbs'[t][i].once, shots[cbs'[t][i].reg] # 0
          PROVE  \E k \in 1..Len(walks) : walks[k].in /\ walks[k].ty = t /\ walks[k].li = cbs'[t][i]
      <3>1. PICK x \in 1..Len(cbs[t]) : cbs'[t][i] = cbs[t][x]
        BY <1>5
      <3> QED
        BY <1>0, <2>1, <3>1 DEF ShotsOK
    <2>2. \A r \in 1..MaxRegs : r > regs' => shots'[r] = 0
      BY <1>0, <1>1 DEF ShotsOK
    <2> QED
      BY <1>1, <2>1, <2>2 DEF ShotsOK
  <1> QED
    BY <1>6, <1>7, <1>8, <1>9

\* add_Event: the new loop starts at the head of its list; it may share the list with a loop
\* further out only if no entry of it is a one-time callback.
LEMMA AddKeeps ==
  ASSUME EventInv, ~meddled, add_Event
  PROVE  EventInv'
  <1>0. CountsOK /\ CallsAreThoseDue /\ ListsOK /\ OneList /\ WalksOK /\ ShotsOK
    BY DEF EventInv
  <1>1. PICK ty \in Types :
          /\ walks' = Append(walks, Walk(ty))
          /\ meddled' = (meddled \/ (BeingWalked(ty) /\ \E k \in DOMAIN cbs[ty] : cbs[ty][k].once))
    BY DEF add_Event
  <1>2. UNCHANGED <<cbs, regs, walked, shots>> /\ MayUse
    BY DEF add_Event
  <1>3. CountsOK' /\ CallsAreThoseDue'
    <2>1. meddled' \in BOOLEAN
      BY <1>1
    <2> QED
      BY <1>0, <1>2, <2>1 DEF CountsOK, CallsAreThoseDue
  <1> SUFFICES ASSUME ~meddled' PROVE ListsOK' /\ OneList' /\ WalksOK' /\ ShotsOK'
    BY <1>3 DEF EventInv
  <1> DEFINE L == cbs[ty]
             v == Walk(ty)
  <1>4. L \in Seq(Entry) /\ Len(L) \in Nat /\ DOMAIN L = 1..Len(L)
    <2>1. L \in Seq(Entry)
      BY <1>0 DEF ListsOK
    <2> QED
      BY <2>1, LenProperties
  <1>5. BeingWalked(ty) => \A k \in 1..Len(L) : ~L[k].once
    BY <1>1, <1>4
  <1> HIDE DEF L
  <1>6. v.ty = ty /\ v.todo = Len(L) /\ v.li = Head(L \o <<EndOfList>>) /\ v.in = FALSE
        /\ v.due = [k \in DOMAIN L |-> L[k].reg] /\ v.got = <<>>
    BY DEF Walk, L
  <1>7. v \in WalkType
    <2>1. v.due \in Seq(Nat)
      <3>1. \A k \in 1..Len(L) : L[k].reg \in Nat
        <4>1. \A k \in 1..Len(L) : L[k] \in Entry
          BY <1>4
        <4> QED
          BY <4>1 DEF Entry
      <3> QED
        BY <1>4, <1>6, <3>1
    <2>2. v.li \in [reg : Nat, func : CbFuncs \cup {NoFunc}, once : BOOLEAN]
      <3> DEFINE P == [reg : Nat, func : CbFuncs \cup {NoFunc}, once : BOOLEAN]
      <3>1. EndOfList \in P /\ Entry \subseteq P
        BY DEF EndOfList, Entry
      <3> HIDE DEF P
      <3>2. L \in Seq(P) /\ <<EndOfList>> \in Seq(P)
        BY <1>4, <3>1, SeqMonotonic
      <3>3. L \o <<EndOfList>> \in Seq(P) /\ L \o <<EndOfList>> # <<>>
        BY <3>2
      <3>4. Head(L \o <<EndOfList>>) \in P
        BY <3>3, HeadTailProperties
      <3> QED
        BY <1>6, <3>4 DEF P
    <2>3. v = [ty |-> v.ty, todo |-> v.todo, li |-> v.li, in |-> v.in, due |-> v.due, got |-> v.got]
      BY DEF Walk
    <2>4. v.got \in Seq(Nat) /\ v.todo \in Nat /\ v.ty \in Types
      BY <1>4, <1>6
    <2>5. v.in \in BOOLEAN
      BY <1>6
    <2> HIDE DEF v
    <2> QED
      BY <2>1, <2>2, <2>3, <2>4, <2>5 DEF WalkType
  <1> HIDE DEF v
  <1>8. WalkOK(v, L) /\ ((\A k \in 1..Len(L) : ~L[k].once) => Plain(v, L))
    BY <1>4, <1>6, <1>7, NewWalk
  <1>9. walks \in Seq(WalkType) /\ Len(walks) \in Nat /\ DOMAIN walks = 1..Len(walks)
    <2>1. walks \in Seq(WalkType)
      BY <1>0 DEF WalksOK
    <2> QED
      BY <2>1, LenProperties
  <1>10. /\ walks' \in Seq(WalkType) /\ Len(walks') = Len(walks) + 1
         /\ \A k \in 1..Len(walks) : walks'[k] = walks[k]
    BY <1>1, <1>7, <1>9 DEF v
  <1>11. walks'[Len(walks) + 1] = v
    BY <1>1, <1>7, <1>9 DEF v
  <1>12. ListsOK' /\ OneList'
    BY <1>0, <1>2 DEF ListsOK, OneList
  <1>13. WalksOK'
    <2>1. ASSUME NEW k \in 1..Len(walks)
          PROVE  /\ WalkOK(walks'[k], cbs[walks'[k].ty]) /\ walks'[k].in
                 /\ (\E j \in 1..(k - 1) : walks'[j].ty = walks'[k].ty) => Plain(walks'[k], cbs[walks'[k].ty])
      <3>1. walks'[k] = walks[k] /\ \A j \in 1..(k - 1) : walks'[j] = walks[j]
        BY <1>10
      <3>2. walks[k].in
        <4>1. CASE k = Len(walks)
          BY <1>2, <1>9, <4>1 DEF MayUse, Top, Last
        <4>2. CASE k # Len(walks)
          <5>0. \A n \in Nat : \A m \in 1..n : m # n => m < n
            OBVIOUS
          <5>1. k < Len(walks)
            BY <1>9, <4>2, <5>0
          <5> QED
            BY <1>0, <5>1 DEF WalksOK
        <4> QED
          BY <4>1, <4>2
      <3>3. WalkOK(walks[k], cbs[walks[k].ty])
        BY <1>0 DEF WalksOK
      <3>4. (\E j \in 1..(k - 1) : walks[j].ty = walks[k].ty) => Plain(walks[k], cbs[walks[k].ty])
        BY <1>0 DEF WalksOK, Shared
      <3> QED
        BY <3>1, <3>2, <3>3, <3>4
    <2>2. (\E j \in 1..Len(walks) : walks'[j].ty = v.ty) => Plain(v, L)
      <3>1. (\E j \in 1..Len(walks) : walks'[j].ty = v.ty) => BeingWalked(ty)
        BY <1>6, <1>9, <1>10 DEF BeingWalked
      <3> QED
        BY <1>5, <1>8, <3>1
    <2>3. ASSUME NEW k \in 1..Len(walks')
          PROVE  /\ WalkOK(walks'[k], cbs[walks'[k].ty]) /\ (k < Len(walks') => walks'[k].in)
                 /\ (\E j \in 1..(k - 1) : walks'[j].ty = walks'[k].ty) => Plain(walks'[k], cbs[walks'[k].ty])
      <3>1. CASE k = Len(walks) + 1
        <4>1. walks'[k] = v /\ cbs[walks'[k].ty] = L /\ k - 1 = Len(walks) /\ ~(k < Len(walks'))
          BY <1>6, <1>9, <1>10, <1>11, <3>1 DEF L
        <4> QED
          BY <1>8, <2>2, <4>1
      <3>2. CASE k # Len(walks) + 1
        <4>1. k \in 1..Len(walks)
          BY <1>9, <1>10, <3>2
        <4> QED
          BY <2>1, <4>1
      <3> QED
        BY <3>1, <3>2
    <2> QED
      BY <1>2, <1>10, <2>3 DEF WalksOK, Shared
  <1>14. ShotsOK'
    <2>1. ASSUME NEW t \in Types, NEW i \in 1..Len(cbs[t]), cbs[t][i].once, shots[cbs[t][i].reg] # 0
          PROVE  \E k \in 1..Len(walks') : walks'[k].in /\ walks'[k].ty = t /\ walks'[k].li = cbs[t][i]
      <3>1. PICK k \in 1..Len(walks) : walks[k].in /\ walks[k].ty = t /\ walks[k].li = cbs[t][i]
        BY <1>0, <2>1 DEF ShotsOK
      <3>2. k \in 1..Len(walks') /\ walks'[k] = walks[k]
        BY <1>9, <1>10
      <3> QED
        BY <3>1, <3>2
    <2>2. \A r \in 1..MaxRegs : r > regs' => shots'[r] = 0
      BY <1>0, <1>2 DEF ShotsOK
    <2> QED
      BY <1>2, <2>1, <2>2 DEF ShotsOK
  <1> QED
    BY <1>12, <1>13, <1>14

\* The innermost loop.
LEMMA TopIs ==
  ASSUME WalksOK, walks # <<>>
  PROVE  /\ Len(walks) \in Nat /\ Len(walks) \in 1..Len(walks) /\ Top = walks[Len(walks)] /\ Top \in WalkType
         /\ Top.ty \in Types /\ Top.in \in BOOLEAN /\ Top.todo \in Nat /\ WalkOK(Top, cbs[Top.ty])
         /\ \A k \in 1..Len(walks) : k # Len(walks) => k \in 1..(Len(walks) - 1)
  <1>1. walks \in Seq(WalkType)
    BY DEF WalksOK
  <1>2. Len(walks) \in Nat \ {0}
    BY <1>1, EmptySeq
  <1>3. Len(walks) \in 1..Len(walks) /\ Top = walks[Len(walks)]
    BY <1>2 DEF Top, Last
  <1>4. \A n \in Nat : \A k \in 1..n : k # n => k \in 1..(n - 1)
    OBVIOUS
  <1>5. \A k \in 1..Len(walks) : k # Len(walks) => k \in 1..(Len(walks) - 1)
    BY <1>2, <1>4
  <1>6. WalkOK(Top, cbs[Top.ty])
    BY <1>3 DEF WalksOK
  <1> QED
    BY <1>2, <1>3, <1>5, <1>6, WalkTyped

\* A step of the innermost loop leaves the others alone.
LEMMA TopMoves ==
  ASSUME WalksOK, walks # <<>>, NEW v \in WalkType, v.ty = Top.ty, SetTop(v),
         WalkOK(v, cbs'[Top.ty]), Plain(Top, cbs[Top.ty]) => Plain(v, cbs'[Top.ty]),
         \A k \in 1..(Len(walks) - 1) : cbs'[walks[k].ty] = cbs[walks[k].ty]
  PROVE  /\ WalksOK' /\ Len(walks') = Len(walks) /\ walks'[Len(walks)] = v
         /\ \A k \in 1..(Len(walks) - 1) : walks'[k] = walks[k]
  <1>0. /\ Len(walks) \in Nat /\ Len(walks) \in 1..Len(walks) /\ Top = walks[Len(walks)]
        /\ \A k \in 1..Len(walks) : k # Len(walks) => k \in 1..(Len(walks) - 1)
    BY TopIs
  <1>1. walks \in Seq(WalkType)
    BY DEF WalksOK
  <1>2. /\ walks' \in Seq(WalkType) /\ Len(walks') = Len(walks)
        /\ \A k \in 1..Len(walks) : walks'[k] = IF k = Len(walks) THEN v ELSE walks[k]
    BY <1>0, <1>1, ExceptSeq DEF SetTop
  <1>3. \A k \in 1..(Len(walks) - 1) : k \in 1..Len(walks) /\ k # Len(walks)
    BY <1>0
  <1>4. walks'[Len(walks)] = v /\ \A k \in 1..(Len(walks) - 1) : walks'[k] = walks[k]
    BY <1>0, <1>2, <1>3
  <1>5. \A k \in 1..Len(walks) : walks'[k].ty = walks[k].ty
    BY <1>0, <1>2
  <1>6. ASSUME NEW k \in 1..Len(walks)
        PROVE  /\ WalkOK(walks'[k], cbs'[walks'[k].ty]) /\ (k < Len(walks) => walks'[k].in)
               /\ (\E j \in 1..(k - 1) : walks'[j].ty = walks'[k].ty) => Plain(walks'[k], cbs'[walks'[k].ty])
    <2>1. (\E j \in 1..(k - 1) : walks'[j].ty = walks'[k].ty) => Plain(walks[k], cbs[walks[k].ty])
      <3>1. \A j \in 1..(k - 1) : j \in 1..Len(walks)
        BY <1>0
      <3>2. (\E j \in 1..(k - 1) : walks'[j].ty = walks'[k].ty) => Shared(k)
        BY <1>5, <3>1 DEF Shared
      <3> QED
        BY <3>2 DEF WalksOK
    <2>2. CASE k = Len(walks)
      <3>1. walks'[k] = v /\ walks[k] = Top /\ walks'[k].ty = Top.ty
        BY <1>0, <1>4, <2>2
      <3>2. ~(k < Len(walks))
        BY <1>0, <2>2
      <3> QED
        BY <2>1, <3>1, <3>2
    <2>3. CASE k # Len(walks)
      <3>1. k \in 1..(Len(walks) - 1) /\ walks'[k] = walks[k] /\ cbs'[walks[k].ty] = cbs[walks[k].ty]
        BY <1>0, <1>4, <2>3
      <3>2. WalkOK(walks[k], cbs[walks[k].ty]) /\ (k < Len(walks) => walks[k].in)
        BY DEF WalksOK
      <3> QED
        BY <2>1, <3>1, <3>2
    <2> QED
      BY <2>2, <2>3
  <1>7. WalksOK'
    BY <1>2, <1>6 DEF WalksOK, Shared
  <1> QED
    BY <1>2, <1>4, <1>7

\* Calling a function: it is the next one due, and a one-time function is called for the first
\* time.
LEMMA CallKeeps ==
  ASSUME EventInv, ~meddled, CallFunc
  PROVE  EventInv'
  <1>0. CountsOK /\ CallsAreThoseDue /\ ListsOK /\ OneList /\ WalksOK /\ ShotsOK
    BY DEF EventInv
  <1> DEFINE n == Len(walks)
             w == Top
             L == cbs[Top.ty]
             v == [Top EXCEPT !.in = TRUE, !.got = Append(Top.got, Top.li.reg)]
  <1>1. walks # <<>> /\ ~w.in /\ w.todo > 0 /\ SetTop(v) /\ UNCHANGED <<cbs, regs, walked, meddled>>
    BY DEF CallFunc, GoesOn
  <1>2. /\ n \in Nat /\ n \in 1..n /\ w = walks[n] /\ w \in WalkType /\ w.ty \in Types
        /\ w.in \in BOOLEAN /\ w.todo \in Nat /\ WalkOK(w, L)
        /\ \A k \in 1..n : k # n => k \in 1..(n - 1)
    BY <1>0, <1>1, TopIs
  <1>3. L \in Seq(Entry) /\ Ordered(L) /\ \A i \in 1..Len(L) : L[i].reg \in 1..regs
    BY <1>0, <1>2 DEF ListsOK
  <1>4. shots' = IF w.li.once THEN [shots EXCEPT ![w.li.reg] = shots[w.li.reg] + 1] ELSE shots
    BY DEF CallFunc
  <1>5. w.in = FALSE
    BY <1>1, <1>2
  <1>6. /\ v \in WalkType /\ v.ty = w.ty /\ v.todo = w.todo /\ v.li = w.li /\ v.due = w.due /\ v.in = TRUE
        /\ v.got = Append(w.got, w.li.reg)
    <2>1. w.got \in Seq(Nat) /\ w.li.reg \in Nat
      BY <1>2 DEF WalkType
    <2>2. Append(w.got, w.li.reg) \in Seq(Nat)
      BY <2>1
    <2> QED
      BY <1>2, <2>2 DEF WalkType
  <1> HIDE DEF w, v, L, n
  <1>7. WalkOK(v, L) /\ (Plain(w, L) => Plain(v, L))
    BY <1>1, <1>2, <1>3, <1>5, <1>6, CalledWalk
  <1>8. /\ WalksOK' /\ Len(walks') = Len(walks) /\ walks'[Len(walks)] = v
        /\ \A k \in 1..(Len(walks) - 1) : walks'[k] = walks[k]
    BY <1>0, <1>1, <1>6, <1>7, TopMoves DEF w, L
  <1>9. PICK i \in 1..Len(L) : L[i] = w.li /\ StandsAt(w, L, i)
    BY <1>1, <1>2 DEF WalkOK, StandsAt
  <1>10. \A k \in 1..n : walks[k].in => k \in 1..(n - 1) /\ walks'[k] = walks[k]
    BY <1>1, <1>2, <1>8 DEF n
  <1>11. w.li.once => shots[w.li.reg] = 0
    <2> SUFFICES ASSUME w.li.once, shots[w.li.reg] # 0 PROVE FALSE
      OBVIOUS
    <2>1. PICK k \in 1..n : walks[k].in /\ walks[k].ty = w.ty
      BY <1>0, <1>2, <1>9 DEF ShotsOK, L, n, w
    <2>2. k \in 1..(n - 1)
      BY <1>10, <2>1
    <2>3. Plain(w, L)
      BY <1>0, <1>2, <2>1, <2>2 DEF WalksOK, Shared, n, w, L
    <2>4. 0 \in 0..(w.todo - 1) /\ i + 0 = i
      BY <1>1, <1>2
    <2> QED
      BY <1>9, <2>3, <2>4 DEF Plain
  <1>12. w.li.reg \in 1..regs /\ w.li.reg \in 1..MaxRegs
    BY <1>0, <1>3, <1>9, EventAssumption DEF CountsOK
  <1>13. shots' \in [1..MaxRegs -> {0, 1}] /\ \A r \in 1..MaxRegs : shots'[r] = IF w.li.once /\ r = w.li.reg THEN 1 ELSE shots[r]
    BY <1>0, <1>4, <1>11, <1>12 DEF CountsOK
  <1>14. CountsOK' /\ CallsAreThoseDue'
    BY <1>0, <1>1, <1>13 DEF CountsOK, CallsAreThoseDue
  <1>15. ListsOK' /\ OneList'
    BY <1>0, <1>1 DEF ListsOK, OneList
  <1>16. ShotsOK'
    <2>1. \A r \in 1..MaxRegs : r > regs' => shots'[r] = 0
      BY <1>0, <1>1, <1>12, <1>13 DEF ShotsOK, CountsOK
    <2>2. ASSUME NEW t \in Types, NEW j \in 1..Len(cbs[t]), cbs[t][j].once, shots'[cbs[t][j].reg] # 0
          PROVE  \E k \in 1..Len(walks') : walks'[k].in /\ walks'[k].ty = t /\ walks'[k].li = cbs[t][j]
      <3>0. cbs[t][j].reg \in 1..regs /\ cbs[t][j].reg \in 1..MaxRegs
        BY <1>0, EventAssumption DEF ListsOK, CountsOK
      <3>1. CASE w.li.once /\ cbs[t][j].reg = w.li.reg
        <4>1. t = w.ty
          BY <1>0, <1>2, <1>9, <2>2, <3>1 DEF OneList, L, w
        <4>2. j = i
          BY <1>3, <1>9, <3>1, <4>1, OnePlace DEF L, w
        <4>3. cbs[t][j] = w.li
          BY <1>9, <4>1, <4>2 DEF L, w
        <4> QED
          BY <1>2, <1>6, <1>8, <4>1, <4>3 DEF n
      <3>2. CASE ~(w.li.once /\ cbs[t][j].reg = w.li.reg)
        <4>1. shots[cbs[t][j].reg] # 0
          BY <1>13, <2>2, <3>0, <3>2
        <4>2. PICK k \in 1..n : walks[k].in /\ walks[k].ty = t /\ walks[k].li = cbs[t][j]
          BY <1>0, <2>2, <4>1 DEF ShotsOK, n
        <4> QED
          BY <1>8, <1>10, <4>2 DEF n
      <3> QED
        BY <3>1, <3>2
    <2> QED
      BY <1>1, <2>1, <2>2 DEF ShotsOK
  <1> QED
    BY <1>8, <1>14, <1>15, <1>16 DEF EventInv

\* A function returns: a one-time entry is erased from its list, which no loop further out walks.
LEMMA ReturnKeeps ==
  ASSUME EventInv, ~meddled, FuncReturns
  PROVE  EventInv'
  <1>0. CountsOK /\ CallsAreThoseDue /\ ListsOK /\ OneList /\ WalksOK /\ ShotsOK
    BY DEF EventInv
  <1> DEFINE n == Len(walks)
             w == Top
             L == cbs[Top.ty]
             M(i) == IF Top.li.once THEN RemoveAt(cbs[Top.ty], i) ELSE cbs[Top.ty]
             v(i) == [Top EXCEPT !.in = FALSE, !.todo = IF Top.todo = 0 THEN 0 ELSE Top.todo - 1,
                                 !.li = IF i = Len(cbs[Top.ty]) THEN EndOfList ELSE cbs[Top.ty][i + 1]]
  <1>1. walks # <<>> /\ w.in /\ UNCHANGED <<regs, walked, shots, meddled>>
    BY DEF FuncReturns
  <1>2. /\ n \in Nat /\ n \in 1..n /\ w = walks[n] /\ w \in WalkType /\ w.ty \in Types
        /\ w.in \in BOOLEAN /\ w.todo \in Nat /\ WalkOK(w, L)
        /\ \A k \in 1..n : k # n => k \in 1..(n - 1)
    BY <1>0, <1>1, TopIs
  <1>3. L \in Seq(Entry) /\ Ordered(L) /\ DOMAIN L = 1..Len(L) /\ Len(L) \in Nat
    <2>1. L \in Seq(Entry) /\ Ordered(L)
      BY <1>0, <1>2 DEF ListsOK
    <2> QED
      BY <2>1, LenProperties
  <1>4. PICK i \in DOMAIN L :
          /\ L[i] = w.li /\ SetTop(v(i))
          /\ cbs' = IF w.li.once THEN [cbs EXCEPT ![w.ty] = RemoveAt(L, i)] ELSE cbs
    BY DEF FuncReturns
  <1>5. i \in 1..Len(L)
    BY <1>3
  <1>6. w.in = TRUE
    BY <1>1, <1>2
  <1>7. w.todo > 0
    BY <1>2, <1>6 DEF WalkOK
  <1> DEFINE vi == v(i)
             Mi == M(i)
  <1>8. /\ vi.ty = w.ty /\ vi.todo = w.todo - 1 /\ vi.due = w.due /\ vi.got = w.got /\ vi.in = FALSE
        /\ vi.li = NextPlace(L, i)
    BY <1>2, <1>7 DEF WalkType, NextPlace
  <1>9. vi \in WalkType
    <2> DEFINE P == [reg : Nat, func : CbFuncs \cup {NoFunc}, once : BOOLEAN]
    <2>1. EndOfList \in P /\ Entry \subseteq P
      BY DEF EndOfList, Entry
    <2>2. i # Len(L) => L[i + 1] \in Entry
      <3>1. i # Len(L) => i + 1 \in 1..Len(L)
        BY <1>3, <1>5
      <3> QED
        BY <1>3, <3>1, ElementOfSeq
    <2>3. (IF i = Len(L) THEN EndOfList ELSE L[i + 1]) \in P
      <3> HIDE DEF P, L
      <3> QED
        BY <2>1, <2>2
    <2>4. \A a \in WalkType, t \in Nat, l \in P : [a EXCEPT !.in = FALSE, !.todo = t, !.li = l] \in WalkType
      BY DEF WalkType
    <2>5. (IF w.todo = 0 THEN 0 ELSE w.todo - 1) \in Nat
      BY <1>2
    <2> HIDE DEF P
    <2> QED
      BY <1>2, <2>3, <2>4, <2>5
  <1>10. SetTop(vi)
    BY <1>4
  <1>11. Mi = (IF w.li.once THEN RemoveAt(L, i) ELSE L) /\ Mi = LeftBehind(L, i)
    <2> HIDE DEF v, vi
    <2> QED
      BY <1>4 DEF LeftBehind
  <1>12. /\ cbs \in [Types -> Seq(Entry)] /\ \A t \in Types : Ordered(cbs[t])
         /\ \A t \in Types : \A j \in 1..Len(cbs[t]) : cbs[t][j].reg \in 1..regs
    BY <1>0 DEF ListsOK
  <1>13. /\ cbs' \in [Types -> Seq(Entry)] /\ cbs'[w.ty] = Mi /\ \A t \in Types : t # w.ty => cbs'[t] = cbs[t]
         /\ (~w.li.once => cbs' = cbs)
    <2>1. RemoveAt(L, i) \in Seq(Entry)
      BY <1>3, <1>5, ErasedList
    <2> HIDE DEF vi, v
    <2> QED
      BY <1>2, <1>4, <1>11, <1>12, <2>1
  <1> HIDE DEF w, vi, v, L, Mi, M, n
  <1>14. WalkOK(vi, Mi) /\ (Plain(w, L) => ~w.li.once /\ Plain(vi, Mi))
    <2>1. L[i] = w.li
      BY <1>4
    <2>2. L \in Seq(Entry) /\ Ordered(L) /\ w \in WalkType /\ WalkOK(w, L)
      BY <1>2, <1>3
    <2> QED
      BY <1>5, <1>6, <1>8, <1>9, <1>11, <2>1, <2>2, ReturnedWalk
  <1>15. \A k \in 1..(n - 1) : cbs'[walks[k].ty] = cbs[walks[k].ty]
    <2> SUFFICES ASSUME NEW k \in 1..(n - 1) PROVE cbs'[walks[k].ty] = cbs[walks[k].ty]
      OBVIOUS
    <2>1. k \in 1..n
      BY <1>2
    <2>2. walks[k].ty \in Types
      BY <1>0, <2>1, WalkTyped DEF n
    <2>3. CASE walks[k].ty = w.ty
      <3>1. Shared(n)
        BY <1>2, <2>3 DEF Shared
      <3>2. Plain(w, L)
        BY <1>0, <1>2, <3>1 DEF WalksOK, n, w, L
      <3> QED
        BY <1>13, <1>14, <3>2
    <2>4. CASE walks[k].ty # w.ty
      BY <1>13, <2>2, <2>4
    <2> QED
      BY <2>3, <2>4
  <1>16. /\ WalksOK' /\ Len(walks') = Len(walks) /\ walks'[Len(walks)] = vi
         /\ \A k \in 1..(Len(walks) - 1) : walks'[k] = walks[k]
    BY <1>0, <1>1, <1>8, <1>9, <1>10, <1>13, <1>14, <1>15, TopMoves DEF w, L, n
  <1>17. ASSUME NEW t \in Types
         PROVE  /\ Ordered(cbs'[t])
                /\ \A x \in 1..Len(cbs'[t]) : \E y \in 1..Len(cbs[t]) :
                     cbs'[t][x] = cbs[t][y] /\ (t = w.ty /\ w.li.once => y # i)
    <2>1. CASE t = w.ty /\ w.li.once
      <3>1. cbs'[t] = RemoveAt(L, i) /\ cbs[t] = L
        BY <1>11, <1>13, <2>1 DEF L, w
      <3>2. Ordered(RemoveAt(L, i))
        BY <1>3, <1>5, ErasedOrdered
      <3>3. /\ Len(RemoveAt(L, i)) = Len(L) - 1
            /\ \A j \in 1..(Len(L) - 1) : RemoveAt(L, i)[j] = IF j < i THEN L[j] ELSE L[j + 1]
        BY <1>3, <1>5, ErasedList
      <3>4. ASSUME NEW x \in 1..Len(RemoveAt(L, i))
            PROVE  \E y \in 1..Len(L) : RemoveAt(L, i)[x] = L[y] /\ y # i
        <4>1. x \in 1..(Len(L) - 1)
          BY <3>3, <3>4
        <4>2. CASE x < i
          <5>1. x \in 1..Len(L) /\ x # i /\ RemoveAt(L, i)[x] = L[x]
            BY <1>3, <1>5, <3>3, <4>1, <4>2
          <5> QED
            BY <5>1
        <4>3. CASE ~(x < i)
          <5>1. x + 1 \in 1..Len(L) /\ x + 1 # i
            BY <1>3, <1>5, <4>1, <4>3
          <5>2. RemoveAt(L, i)[x] = L[x + 1]
            BY <3>3, <4>1, <4>3
          <5> QED
            BY <5>1, <5>2
        <4> QED
          BY <4>2, <4>3
      <3> QED
        BY <3>1, <3>2, <3>4
    <2>2. CASE ~(t = w.ty /\ w.li.once)
      <3>1. cbs'[t] = cbs[t]
        BY <1>13, <2>2
      <3> QED
        BY <1>12, <2>2, <3>1
    <2> QED
      BY <2>1, <2>2
  <1>18. ListsOK'
    <2>1. ASSUME NEW t \in Types, NEW x \in 1..Len(cbs'[t]) PROVE cbs'[t][x].reg \in 1..regs
      <3>1. PICK y \in 1..Len(cbs[t]) : cbs'[t][x] = cbs[t][y]
        BY <1>17
      <3> QED
        BY <1>12, <3>1
    <2> QED
      BY <1>1, <1>13, <1>17, <2>1 DEF ListsOK
  <1>19. OneList'
    <2> SUFFICES ASSUME NEW t \in Types, NEW u \in Types, NEW a \in 1..Len(cbs'[t]), NEW b \in 1..Len(cbs'[u]),
                        cbs'[t][a].once, cbs'[t][a].reg = cbs'[u][b].reg
                 PROVE  t = u
      BY DEF OneList
    <2>1. PICK x \in 1..Len(cbs[t]) : cbs'[t][a] = cbs[t][x]
      BY <1>17
    <2>2. PICK y \in 1..Len(cbs[u]) : cbs'[u][b] = cbs[u][y]
      BY <1>17
    <2> QED
      BY <1>0, <2>1, <2>2 DEF OneList
  <1>20. ShotsOK'
    <2>1. \A r \in 1..MaxRegs : r > regs' => shots'[r] = 0
      BY <1>0, <1>1 DEF ShotsOK
    <2>2. ASSUME NEW t \in Types, NEW j \in 1..Len(cbs'[t]), cbs'[t][j].once, shots[cbs'[t][j].reg] # 0
          PROVE  \E k \in 1..Len(walks') : walks'[k].in /\ walks'[k].ty = t /\ walks'[k].li = cbs'[t][j]
      <3>1. PICK y \in 1..Len(cbs[t]) : cbs'[t][j] = cbs[t][y] /\ (t = w.ty /\ w.li.once => y # i)
        BY <1>17
      <3>2. PICK k \in 1..n : walks[k].in /\ walks[k].ty = t /\ walks[k].li = cbs[t][y]
        BY <1>0, <2>2, <3>1 DEF ShotsOK, n
      <3>3. k # n
        <4> SUFFICES ASSUME k = n PROVE FALSE
          OBVIOUS
        <4>1. t = w.ty /\ w.li = cbs[t][y] /\ w.li.once
          BY <1>2, <2>2, <3>1, <3>2
        <4>2. y \in 1..Len(L) /\ L[y] = L[i] /\ y # i
          BY <1>4, <3>1, <4>1 DEF L, w
        <4> QED
          BY <1>3, <1>5, <4>2, OnePlace
      <3>4. k \in 1..(n - 1)
        BY <1>2, <3>3
      <3>5. walks'[k] = walks[k] /\ k \in 1..Len(walks')
        BY <1>16, <3>4 DEF n
      <3> QED
        BY <3>1, <3>2, <3>5
    <2> QED
      BY <1>1, <2>1, <2>2 DEF ShotsOK
  <1>21. CountsOK' /\ CallsAreThoseDue'
    BY <1>0, <1>1 DEF CountsOK, CallsAreThoseDue
  <1> QED
    BY <1>16, <1>18, <1>19, <1>20, <1>21 DEF EventInv

\* The innermost loop is over: it called exactly the callbacks that were due.
LEMMA EndKeeps ==
  ASSUME EventInv, ~meddled, WalkEnds
  PROVE  EventInv'
  <1>0. CountsOK /\ CallsAreThoseDue /\ ListsOK /\ OneList /\ WalksOK /\ ShotsOK
    BY DEF EventInv
  <1>1. /\ walks # <<>> /\ ~Top.in /\ ~(Top.todo > 0) /\ walks' = Front(walks)
        /\ walked' = walked \cup {<<Top.due, Top.got>>} /\ UNCHANGED <<cbs, regs, shots, meddled>>
    BY DEF WalkEnds, GoesOn
  <1>2. /\ Len(walks) \in Nat /\ Len(walks) \in 1..Len(walks) /\ Top = walks[Len(walks)] /\ Top \in WalkType
        /\ Top.in \in BOOLEAN /\ WalkOK(Top, cbs[Top.ty])
        /\ \A k \in 1..Len(walks) : k # Len(walks) => k \in 1..(Len(walks) - 1)
    BY <1>0, <1>1, TopIs
  <1>3. walks \in Seq(WalkType)
    BY <1>0 DEF WalksOK
  <1>4. /\ walks' \in Seq(WalkType) /\ Len(walks') = Len(walks) - 1
        /\ \A k \in 1..(Len(walks) - 1) : walks'[k] = walks[k]
    <2>1. walks' = SubSeq(walks, 1, Len(walks) - 1)
      BY <1>1 DEF Front
    <2>2. \A k \in 1..(Len(walks) - 1) : walks[k] \in WalkType
      BY <1>2, <1>3
    <2>3. /\ SubSeq(walks, 1, Len(walks) - 1) \in Seq(WalkType)
          /\ Len(SubSeq(walks, 1, Len(walks) - 1)) = Len(walks) - 1
          /\ \A k \in 1..(Len(walks) - 1) : SubSeq(walks, 1, Len(walks) - 1)[k] = walks[k]
      <3> DEFINE m == Len(walks) - 1
      <3>1. m \in Nat /\ Len(walks) \in Nat /\ m <= Len(walks)
        BY <1>2
      <3> HIDE DEF m
      <3>2. \A k \in 1..m : walks[k] \in WalkType
        BY <2>2 DEF m
      <3>3. SubSeq(walks, 1, m) \in Seq(WalkType)
        BY <1>3, <3>1, <3>2, SubSeqProperties
      <3>4. Len(SubSeq(walks, 1, m)) = IF 1 <= m THEN m - 1 + 1 ELSE 0
        BY <1>3, <3>1, <3>2, SubSeqProperties
      <3>5. \A k \in 1..(m - 1 + 1) : SubSeq(walks, 1, m)[k] = walks[1 + k - 1]
        BY <1>3, <3>1, <3>2, SubSeqProperties
      <3>6. Len(SubSeq(walks, 1, m)) = m /\ \A k \in 1..m : SubSeq(walks, 1, m)[k] = walks[k]
        BY <3>1, <3>4, <3>5
      <3> QED
        BY <3>3, <3>6 DEF m
    <2> QED
      BY <2>1, <2>3
  <1>5. CallsAreThoseDue'
    <2>1. Top.in = FALSE
      BY <1>1, <1>2
    <2>2. Top.due = Top.got
      BY <1>1, <1>2, <2>1, FinishedWalk
    <2> QED
      BY <1>0, <1>1, <2>2 DEF CallsAreThoseDue
  <1>6. CountsOK' /\ ListsOK' /\ OneList'
    BY <1>0, <1>1 DEF CountsOK, ListsOK, OneList
  <1>7. WalksOK'
    <2>1. ASSUME NEW k \in 1..(Len(walks) - 1)
          PROVE  /\ WalkOK(walks'[k], cbs[walks'[k].ty]) /\ walks'[k].in
                 /\ (\E j \in 1..(k - 1) : walks'[j].ty = walks'[k].ty) => Plain(walks'[k], cbs[walks'[k].ty])
      <3>1. walks'[k] = walks[k] /\ \A j \in 1..(k - 1) : walks'[j] = walks[j]
        BY <1>2, <1>4
      <3>2. k \in 1..Len(walks) /\ k < Len(walks)
        BY <1>2
      <3>3. WalkOK(walks[k], cbs[walks[k].ty]) /\ walks[k].in /\ (Shared(k) => Plain(walks[k], cbs[walks[k].ty]))
        BY <1>0, <3>2 DEF WalksOK
      <3> QED
        BY <3>1, <3>3 DEF Shared
    <2> QED
      BY <1>1, <1>4, <2>1 DEF WalksOK, Shared
  <1>8. ShotsOK'
    <2>1. ASSUME NEW t \in Types, NEW i \in 1..Len(cbs[t]), cbs[t][i].once, shots[cbs[t][i].reg] # 0
          PROVE  \E k \in 1..Len(walks') : walks'[k].in /\ walks'[k].ty = t /\ walks'[k].li = cbs[t][i]
      <3>1. PICK k \in 1..Len(walks) : walks[k].in /\ walks[k].ty = t /\ walks[k].li = cbs[t][i]
        BY <1>0, <2>1 DEF ShotsOK
      <3>2. k # Len(walks)
        BY <1>1, <1>2, <3>1
      <3>3. k \in 1..(Len(walks) - 1)
        BY <1>2, <3>2
      <3>4. k \in 1..Len(walks') /\ walks'[k] = walks[k]
        BY <1>4, <3>3
      <3> QED
        BY <3>1, <3>4
    <2>2. \A r \in 1..MaxRegs : r > regs' => shots'[r] = 0
      BY <1>0, <1>1 DEF ShotsOK
    <2> QED
      BY <1>1, <2>1, <2>2 DEF ShotsOK
  <1> QED
    BY <1>5, <1>6, <1>7, <1>8 DEF EventInv

\* Every step keeps the invariant.
LEMMA NextEvent ==
  ASSUME EventInv, [EventNext]_eventVars
  PROVE  EventInv'
  <1>1. CASE UNCHANGED eventVars
    BY <1>1, QuietEvent DEF eventVars
  <1>2. ASSUME EventNext, register_Callback PROVE EventInv'
    BY <1>2, RegisterKeeps DEF EventNext
  <1>3. ASSUME EventNext, remove_Callback PROVE EventInv'
    BY <1>3, RemoveKeeps DEF EventNext
  <1>4. ASSUME get_NextEvent \/ clear_Events PROVE EventInv'
    BY <1>4, QuietEvent DEF get_NextEvent, clear_Events
  <1>5. ASSUME EventNext, add_Event PROVE EventInv'
    BY <1>5, AddKeeps DEF EventNext
  <1>6. ASSUME EventNext, CallFunc PROVE EventInv'
    BY <1>6, CallKeeps DEF EventNext
  <1>7. ASSUME EventNext, FuncReturns PROVE EventInv'
    BY <1>7, ReturnKeeps DEF EventNext
  <1>8. ASSUME EventNext, WalkEnds PROVE EventInv'
    BY <1>8, EndKeeps DEF EventNext
  <1> QED
    BY <1>1, <1>2, <1>3, <1>4, <1>5, <1>6, <1>7, <1>8 DEF EventNext

\* What the invariant says of the calls: those due, the iterator in its list, one-time once.
LEMMA EventInvCorrect == EventInv => CallbacksCorrect
  <1> SUFFICES ASSUME EventInv PROVE CallbacksCorrect
    OBVIOUS
  <1>1. CallsAreThoseDue
    BY DEF EventInv
  <1>2. IteratorInList
    <2> SUFFICES ASSUME ~meddled, NEW k \in DOMAIN walks, walks[k].todo > 0
                 PROVE  \E i \in DOMAIN cbs[walks[k].ty] : cbs[walks[k].ty][i] = walks[k].li
      BY DEF IteratorInList, GoesOn
    <2>0. WalksOK /\ ListsOK
      BY DEF EventInv
    <2>1. k \in 1..Len(walks)
      BY <2>0, LenProperties DEF WalksOK
    <2>2. walks[k].ty \in Types /\ WalkOK(walks[k], cbs[walks[k].ty])
      BY <2>0, <2>1, WalkTyped DEF WalksOK
    <2>3. DOMAIN cbs[walks[k].ty] = 1..Len(cbs[walks[k].ty])
      <3>1. cbs[walks[k].ty] \in Seq(Entry)
        BY <2>0, <2>2 DEF ListsOK
      <3> QED
        BY <3>1, LenProperties
    <2> QED
      BY <2>2, <2>3 DEF WalkOK, StandsAt
  <1>3. OneTimeOnce
    <2>1. shots \in [1..MaxRegs -> {0, 1}]
      BY DEF EventInv, CountsOK
    <2> QED
      BY <2>1 DEF OneTimeOnce
  <1> QED
    BY <1>1, <1>2, <1>3 DEF CallbacksCorrect

-----------------------------------------------------------------------------
\* execute_Callbacks is correct for any number of callbacks, types and events and any nesting of
\* add_Event in callbacks: with every event exactly the callbacks registered when it was added
\* are called, in the order of registration; a one-time callback is called once, though its entry
\* is erased while the list is walked; and, until a callback takes entries from under a loop, the
\* iterator of every loop that goes on stands at an entry of its list.
THEOREM CallbacksCorrectTheorem == EventSpec => []CallbacksCorrect
  <1>1. EventInit => EventInv
    BY InitEvent
  <1>2. EventInv /\ [EventNext]_eventVars => EventInv'
    BY NextEvent
  <1>3. EventInv => CallbacksCorrect
    BY EventInvCorrect
  <1> QED
    BY <1>1, <1>2, <1>3, PTL DEF EventSpec
=============================================================================
