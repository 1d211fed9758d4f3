--------------------------- MODULE Streams_proofs ---------------------------
(***************************************************************************)
(* Proofs about the two directions of a stream.  StreamSend, for any       *)
(* finite sets of threads: why counting in _num_sending keeps the          *)
(* destructor and the senders apart, and where the packets go that the     *)
(* filters return.  StreamRecv, for any number of streams, peers and       *)
(* processes: the iterator of Network::recv stays valid, the assertions    *)
(* hold, and a stream that is closed is deleted only once it is empty.     *)
(***************************************************************************)
EXTENDS StreamSend, StreamRecv, FiniteSetTheorems, WellFoundedInduction, TLAPS

-----------------------------------------------------------------------------
(* StreamSend: senders, the destructor and the packets of the filters. *)

\* The calls of send_aux that have counted themselves in and not yet out.
Inside == {t \in SendThreads : Sending(t) /\ job[t].pc # "enter"}

SendLabels == {"idle", "enter", "closed?", "filter", "forward", "reverse", "leave", "delete", "dwait", "erase", "free"}
SendOps == {"none", "send", "internal", "data", "timeout", "delete"}
JobType == [pc : SendLabels, op : SendOps, dir : {"none", "up", "down"}, out : SUBSET Nat, rev : SUBSET Nat]
JobsOK == job \in [SendThreads -> JobType]
\* Which calls are where.
LabelsOK ==
  \A t \in SendThreads :
    /\ job[t].pc = "idle" <=> job[t].op = "none"
    /\ job[t].pc \in {"delete", "dwait", "erase", "free"} <=> job[t].op = "delete"
    /\ job[t].pc \in {"enter", "closed?", "leave"} => Sending(t)
\* _num_sending counts the calls inside, and the ones that returned without counting down.
Counted == num = Cardinality(Inside) + leaked
NumbersOK == num \in Nat /\ leaked \in Nat
ClosedWhenNotOpen == life # "open" => shut
ErasedClosed == \A t \in SendThreads : job[t].pc \in {"erase", "free"} => life \in {"closing", "erased", "freed"}
SleepsForSomebody == \A t \in SendThreads : job[t].pc = "dwait" => num # 0

SendInv ==
  /\ JobsOK /\ LabelsOK /\ NumbersOK /\ Counted
  /\ ClosedWhenNotOpen /\ ErasedClosed /\ SleepsForSomebody /\ NoSenderInFreedStream

-----------------------------------------------------------------------------
\* Threads are finitely many, so the calls inside can be counted.
LEMMA InsideFinite == IsFiniteSet(Inside) /\ Cardinality(Inside) \in Nat
  <1>1. IsFiniteSet(SendThreads)
    BY SendAssumption, FS_Union DEF SendThreads
  <1>2. IsFiniteSet(Inside)
    BY <1>1, FS_Subset DEF Inside
  <1> QED
    BY <1>2, FS_CardinalityType

\* A step that leaves the counted calls and both counters alone keeps the count right.
LEMMA SameCount ==
  ASSUME NumbersOK, Counted, Inside' = Inside, num' = num, leaked' = leaked
  PROVE  NumbersOK' /\ Counted'
  BY DEF NumbersOK, Counted

\* The initial state satisfies the inductive invariant (SendInit).
LEMMA InitSend == SendInit => SendInv
  <1> SUFFICES ASSUME SendInit PROVE SendInv
    OBVIOUS
  <1> USE DEF SendInit
  <1>1. JobsOK /\ LabelsOK
    BY DEF JobsOK, LabelsOK, NoJob, JobType, SendLabels, SendOps, Sending
  <1>2. Inside = {}
    BY DEF Inside, Sending, NoJob
  <1>3. NumbersOK /\ Counted
    BY <1>2, FS_EmptySet DEF NumbersOK, Counted
  <1>4. ClosedWhenNotOpen /\ ErasedClosed /\ SleepsForSomebody /\ NoSenderInFreedStream
    BY DEF ClosedWhenNotOpen, ErasedClosed, SleepsForSomebody, NoSenderInFreedStream, NoJob
  <1> QED
    BY <1>1, <1>3, <1>4 DEF SendInv

\* Stream::send: the count is not touched.
LEMMA send_Keeps ==
  ASSUME SendInv, NEW t \in SendThreads, send(t)
  PROVE  SendInv'
  <1> USE DEF send, Starts, InJob, SendInv
  <1>1. JobsOK'
    BY DEF JobsOK, JobType, NoJob, SendLabels, SendOps
  <1>2. LabelsOK'
    BY DEF JobsOK, JobType, LabelsOK, Sending, NoJob
  <1>3. Inside' = Inside
    BY DEF JobsOK, JobType, LabelsOK, Inside, Sending, NoJob
  <1>4. NumbersOK' /\ Counted'
    BY <1>3, SameCount
  <1>5. ClosedWhenNotOpen' /\ ErasedClosed' /\ SleepsForSomebody'
    BY DEF JobsOK, JobType, ClosedWhenNotOpen, ErasedClosed, SleepsForSomebody, NoJob
  <1>6. NoSenderInFreedStream'
    BY DEF JobsOK, JobType, LabelsOK, ClosedWhenNotOpen, ErasedClosed, NoSenderInFreedStream, Sending, NoJob
  <1> QED
    BY <1>1, <1>2, <1>4, <1>5, <1>6

\* Stream::send_internal: the count is not touched.
LEMMA send_internal_Keeps ==
  ASSUME SendInv, NEW t \in SendThreads, send_internal(t)
  PROVE  SendInv'
  <1> USE DEF send_internal, Starts, InJob, SendInv
  <1>1. JobsOK'
    BY DEF JobsOK, JobType, NoJob, SendLabels, SendOps
  <1>2. LabelsOK'
    BY DEF JobsOK, JobType, LabelsOK, Sending, NoJob
  <1>3. Inside' = Inside
    BY DEF JobsOK, JobType, LabelsOK, Inside, Sending, NoJob
  <1>4. NumbersOK' /\ Counted'
    BY <1>3, SameCount
  <1>5. ClosedWhenNotOpen' /\ ErasedClosed' /\ SleepsForSomebody'
    BY DEF JobsOK, JobType, ClosedWhenNotOpen, ErasedClosed, SleepsForSomebody, NoJob
  <1>6. NoSenderInFreedStream'
    BY DEF JobsOK, JobType, LabelsOK, ClosedWhenNotOpen, ErasedClosed, NoSenderInFreedStream, Sending, NoJob
  <1> QED
    BY <1>1, <1>2, <1>4, <1>5, <1>6

\* proc_DataFromParent, proc_DataFromChildren: the count is not touched.
LEMMA proc_Data_Keeps ==
  ASSUME SendInv, NEW t \in SendThreads, proc_Data(t)
  PROVE  SendInv'
  <1> USE DEF proc_Data, Starts, InJob, SendInv
  <1>1. JobsOK'
    <2>1. PICK d \in {"up", "down"} : Starts(t, "data", d, "filter")
      BY DEF proc_Data
    <2> QED
      BY <2>1 DEF JobsOK, JobType, NoJob, SendLabels, SendOps
  <1>2. LabelsOK'
    BY DEF JobsOK, JobType, LabelsOK, Sending, NoJob
  <1>3. Inside' = Inside
    BY DEF JobsOK, JobType, LabelsOK, Inside, Sending, NoJob
  <1>4. NumbersOK' /\ Counted'
    BY <1>3, SameCount
  <1>5. ClosedWhenNotOpen' /\ ErasedClosed' /\ SleepsForSomebody'
    BY DEF JobsOK, JobType, ClosedWhenNotOpen, ErasedClosed, SleepsForSomebody, NoJob
  <1>6. NoSenderInFreedStream'
    BY DEF JobsOK, JobType, LabelsOK, ClosedWhenNotOpen, ErasedClosed, NoSenderInFreedStream, Sending, NoJob
  <1> QED
    BY <1>1, <1>2, <1>4, <1>5, <1>6

\* EventDetector::handle_Timeout: the count is not touched.
LEMMA handle_Timeout_Keeps ==
  ASSUME SendInv, NEW t \in SendThreads, handle_Timeout(t)
  PROVE  SendInv'
  <1> USE DEF handle_Timeout, Starts, InJob, SendInv
  <1>1. JobsOK'
    BY DEF JobsOK, JobType, NoJob, SendLabels, SendOps
  <1>2. LabelsOK'
    BY DEF JobsOK, JobType, LabelsOK, Sending, NoJob
  <1>3. Inside' = Inside
    BY DEF JobsOK, JobType, LabelsOK, Inside, Sending, NoJob
  <1>4. NumbersOK' /\ Counted'
    BY <1>3, SameCount
  <1>5. ClosedWhenNotOpen' /\ ErasedClosed' /\ SleepsForSomebody'
    BY DEF JobsOK, JobType, ClosedWhenNotOpen, ErasedClosed, SleepsForSomebody, NoJob
  <1>6. NoSenderInFreedStream'
    BY DEF JobsOK, JobType, LabelsOK, ClosedWhenNotOpen, ErasedClosed, NoSenderInFreedStream, Sending, NoJob
  <1> QED
    BY <1>1, <1>2, <1>4, <1>5, <1>6

\* send_aux finds the stream open: the count is not touched.
LEMMA SendOpen_Keeps ==
  ASSUME SendInv, NEW t \in SendThreads, SendOpen(t)
  PROVE  SendInv'
  <1> USE DEF SendOpen, InJob, SendInv
  <1>1. JobsOK'
    BY DEF JobsOK, JobType, NoJob, SendLabels, SendOps
  <1>2. LabelsOK'
    BY DEF JobsOK, JobType, LabelsOK, Sending, NoJob
  <1>3. Inside' = Inside
    BY DEF JobsOK, JobType, LabelsOK, Inside, Sending, NoJob
  <1>4. NumbersOK' /\ Counted'
    BY <1>3, SameCount
  <1>5. ClosedWhenNotOpen' /\ ErasedClosed' /\ SleepsForSomebody'
    BY DEF JobsOK, JobType, ClosedWhenNotOpen, ErasedClosed, SleepsForSomebody, NoJob
  <1>6. NoSenderInFreedStream'
    BY DEF JobsOK, JobType, LabelsOK, ClosedWhenNotOpen, ErasedClosed, NoSenderInFreedStream, Sending, NoJob
  <1> QED
    BY <1>1, <1>2, <1>4, <1>5, <1>6

\* Stream::push_Packet: the count is not touched.
LEMMA push_Packet_Keeps ==
  ASSUME SendInv, NEW t \in SendThreads, push_Packet(t)
  PROVE  SendInv'
  <1> USE DEF SendInv
  <1>0. PICK out \in SUBSET Nat, rev \in SUBSET Nat, l \in {"reverse", "forward"} :
          /\ job[t].pc = "filter" /\ UNCHANGED <<num, shut, life, leaked>>
          /\ job' = [job EXCEPT ![t] = [@ EXCEPT !.out = out, !.rev = rev, !.pc = l]]
    <2>1. PICK out \in SUBSET Fresh, rev \in SUBSET Fresh : job' = [job EXCEPT ![t] = [@ EXCEPT !.out = out, !.rev = rev,
                                                  !.pc = IF BackEndData(t) THEN "reverse" ELSE "forward"]]
      BY DEF push_Packet
    <2>2. Fresh \subseteq Nat
      BY SendAssumption DEF Fresh
    <2> QED
      BY <2>1, <2>2 DEF push_Packet, InJob
  <1>1. JobsOK'
    <2> DEFINE j == [job[t] EXCEPT !.out = out, !.rev = rev, !.pc = l]
    <2>1. job[t] \in JobType
      BY DEF JobsOK
    <2>2. j \in JobType
      BY <2>1 DEF JobType, SendLabels
    <2>3. job' = [job EXCEPT ![t] = j]
      BY <1>0
    <2> QED
      BY <2>2, <2>3 DEF JobsOK
  <1>2. LabelsOK'
    BY <1>0 DEF JobsOK, JobType, LabelsOK, Sending, NoJob
  <1>3. Inside' = Inside
    BY <1>0 DEF JobsOK, JobType, LabelsOK, Inside, Sending, NoJob
  <1>4. NumbersOK' /\ Counted'
    BY <1>0, <1>3, SameCount
  <1>5. ClosedWhenNotOpen' /\ ErasedClosed' /\ SleepsForSomebody'
    BY <1>0 DEF JobsOK, JobType, ClosedWhenNotOpen, ErasedClosed, SleepsForSomebody, NoJob
  <1>6. NoSenderInFreedStream'
    BY <1>0 DEF JobsOK, JobType, LabelsOK, ClosedWhenNotOpen, NoSenderInFreedStream, Sending, NoJob
  <1> QED
    BY <1>1, <1>2, <1>4, <1>5, <1>6

\* the packets that go on: the count is not touched.
LEMMA Forward_Keeps ==
  ASSUME SendInv, NEW t \in SendThreads, Forward(t)
  PROVE  SendInv'
  <1> USE DEF SendInv
  <1>0. PICK j :
          /\ job[t].pc = "forward" /\ UNCHANGED <<num, shut, life, leaked>>
          /\ job' = [job EXCEPT ![t] = j] /\ j \in JobType
          /\ (j = NoJob /\ ~Sending(t)) \/ (j.op = job[t].op /\ j.pc = "reverse")
    <2>1. CASE BackEndData(t)
      <3>1. NoJob \in JobType
        BY DEF NoJob, JobType, SendLabels, SendOps
      <3> QED
        BY <2>1, <3>1 DEF Forward, InJob, BackEndData, Sending, JobsOK
    <2>2. CASE ~BackEndData(t)
      <3> DEFINE o == IF job[t].op = "data" THEN job[t].out ELSE {}
      <3> DEFINE j == [job[t] EXCEPT !.pc = "reverse", !.out = o]
      <3>1. job' = [job EXCEPT ![t] = j] /\ job[t].pc = "forward" /\ UNCHANGED <<num, shut, life, leaked>>
        BY <2>2 DEF Forward, InJob, JobsOK
      <3>2. j \in JobType /\ j.op = job[t].op /\ j.pc = "reverse"
        <4>1. o \in SUBSET Nat
          BY DEF JobsOK, JobType
        <4> QED
          BY <4>1 DEF JobsOK, JobType, SendLabels, SendOps
      <3> QED
        BY <3>1, <3>2
    <2> QED
      BY <2>1, <2>2
  <1>1. JobsOK'
    BY <1>0 DEF JobsOK, JobType, NoJob, SendLabels, SendOps
  <1>2. LabelsOK'
    BY <1>0 DEF JobsOK, JobType, LabelsOK, Sending, NoJob
  <1>3. Inside' = Inside
    BY <1>0 DEF JobsOK, JobType, LabelsOK, Inside, Sending, NoJob
  <1>4. NumbersOK' /\ Counted'
    BY <1>0, <1>3, SameCount
  <1>5. ClosedWhenNotOpen' /\ ErasedClosed' /\ SleepsForSomebody'
    BY <1>0 DEF JobsOK, JobType, ClosedWhenNotOpen, ErasedClosed, SleepsForSomebody, NoJob
  <1>6. NoSenderInFreedStream'
    BY <1>0 DEF JobsOK, JobType, LabelsOK, ClosedWhenNotOpen, NoSenderInFreedStream, Sending, NoJob
  <1> QED
    BY <1>1, <1>2, <1>4, <1>5, <1>6

\* the packets that go back: the count is not touched.
LEMMA SendBack_Keeps ==
  ASSUME SendInv, NEW t \in SendThreads, SendBack(t)
  PROVE  SendInv'
  <1> USE DEF SendInv
  <1>0. PICK j :
          /\ job[t].pc = "reverse" /\ UNCHANGED <<num, shut, life, leaked>>
          /\ job' = [job EXCEPT ![t] = j] /\ j \in JobType
          /\ (j = NoJob /\ ~Sending(t)) \/ (j.op = job[t].op /\ j.pc \in {"leave", "forward"} /\ (j.pc = "leave" => Sending(t)))
    <2>0. job[t].pc = "reverse" /\ UNCHANGED <<num, shut, life, leaked>> /\ Ended(t)
      BY DEF SendBack, InJob
    <2>1. CASE Sending(t)
      <3> DEFINE j == [job[t] EXCEPT !.pc = "leave", !.rev = {}]
      <3>1. job' = [job EXCEPT ![t] = j]
        BY <2>0, <2>1 DEF Ended, BackEndData, Sending, JobsOK
      <3>2. j \in JobType /\ j.op = job[t].op /\ j.pc = "leave"
        BY DEF JobsOK, JobType, SendLabels, SendOps
      <3> QED
        BY <2>0, <2>1, <3>1, <3>2
    <2>2. CASE BackEndData(t)
      <3> DEFINE j == [job[t] EXCEPT !.pc = "forward", !.rev = {}]
      <3>1. job' = [job EXCEPT ![t] = j]
        BY <2>0, <2>2 DEF Ended, BackEndData, Sending, JobsOK
      <3>2. j \in JobType /\ j.op = job[t].op /\ j.pc = "forward"
        BY DEF JobsOK, JobType, SendLabels, SendOps
      <3> QED
        BY <2>0, <3>1, <3>2
    <2>3. CASE ~Sending(t) /\ ~BackEndData(t)
      <3>1. job' = [job EXCEPT ![t] = NoJob]
        BY <2>0, <2>3 DEF Ended, JobsOK
      <3> QED
        BY <2>0, <2>3, <3>1 DEF JobType, NoJob, SendLabels, SendOps
    <2> QED
      BY <2>1, <2>2, <2>3
  <1>1. JobsOK'
    BY <1>0 DEF JobsOK, JobType, NoJob, SendLabels, SendOps
  <1>2. LabelsOK'
    BY <1>0 DEF JobsOK, JobType, LabelsOK, Sending, NoJob
  <1>3. Inside' = Inside
    BY <1>0 DEF JobsOK, JobType, LabelsOK, Inside, Sending, NoJob
  <1>4. NumbersOK' /\ Counted'
    BY <1>0, <1>3, SameCount
  <1>5. ClosedWhenNotOpen' /\ ErasedClosed' /\ SleepsForSomebody'
    BY <1>0 DEF JobsOK, JobType, ClosedWhenNotOpen, ErasedClosed, SleepsForSomebody, NoJob
  <1>6. NoSenderInFreedStream'
    BY <1>0 DEF JobsOK, JobType, LabelsOK, ClosedWhenNotOpen, NoSenderInFreedStream, Sending, NoJob
  <1> QED
    BY <1>1, <1>2, <1>4, <1>5, <1>6

\* Stream::close: the count is not touched.
LEMMA close_Keeps ==
  ASSUME SendInv, NEW t \in SendThreads, close(t)
  PROVE  SendInv'
  <1> USE DEF close, InJob, SendInv
  <1>1. JobsOK'
    BY DEF JobsOK, JobType, NoJob, SendLabels, SendOps
  <1>2. LabelsOK'
    BY DEF JobsOK, JobType, LabelsOK, Sending, NoJob
  <1>3. Inside' = Inside
    BY DEF JobsOK, JobType, LabelsOK, Inside, Sending, NoJob
  <1>4. NumbersOK' /\ Counted'
    BY <1>3, SameCount
  <1>5. ClosedWhenNotOpen' /\ ErasedClosed' /\ SleepsForSomebody'
    BY DEF JobsOK, JobType, ClosedWhenNotOpen, ErasedClosed, SleepsForSomebody, NoJob
  <1>6. NoSenderInFreedStream'
    BY DEF JobsOK, JobType, LabelsOK, ClosedWhenNotOpen, ErasedClosed, NoSenderInFreedStream, Sending, NoJob
  <1> QED
    BY <1>1, <1>2, <1>4, <1>5, <1>6

\* ~Stream begins: the count is not touched.
LEMMA Delete_Keeps ==
  ASSUME SendInv, NEW t \in SendThreads, Delete(t)
  PROVE  SendInv'
  <1> USE DEF Delete, Starts, InJob, SendInv
  <1>1. JobsOK'
    BY DEF JobsOK, JobType, NoJob, SendLabels, SendOps
  <1>2. LabelsOK'
    BY DEF JobsOK, JobType, LabelsOK, Sending, NoJob
  <1>3. Inside' = Inside
    BY DEF JobsOK, JobType, LabelsOK, Inside, Sending, NoJob
  <1>4. NumbersOK' /\ Counted'
    BY <1>3, SameCount
  <1>5. ClosedWhenNotOpen' /\ ErasedClosed' /\ SleepsForSomebody'
    BY DEF JobsOK, JobType, ClosedWhenNotOpen, ErasedClosed, SleepsForSomebody, NoJob
  <1>6. NoSenderInFreedStream'
    BY DEF JobsOK, JobType, LabelsOK, ClosedWhenNotOpen, ErasedClosed, NoSenderInFreedStream, Sending, NoJob
  <1> QED
    BY <1>1, <1>2, <1>4, <1>5, <1>6

\* ~Stream waits: the count is not touched.
LEMMA DeleteWait_Keeps ==
  ASSUME SendInv, NEW t \in SendThreads, DeleteWait(t)
  PROVE  SendInv'
  <1> USE DEF DeleteWait, InJob, SendInv
  <1>1. JobsOK'
    BY DEF JobsOK, JobType, NoJob, SendLabels, SendOps
  <1>2. LabelsOK'
    BY DEF JobsOK, JobType, LabelsOK, Sending, NoJob
  <1>3. Inside' = Inside
    BY DEF JobsOK, JobType, LabelsOK, Inside, Sending, NoJob
  <1>4. NumbersOK' /\ Counted'
    BY <1>3, SameCount
  <1>5. ClosedWhenNotOpen' /\ ErasedClosed' /\ SleepsForSomebody'
    BY DEF JobsOK, JobType, ClosedWhenNotOpen, ErasedClosed, SleepsForSomebody, NoJob
  <1>6. NoSenderInFreedStream'
    BY DEF JobsOK, JobType, LabelsOK, ClosedWhenNotOpen, ErasedClosed, NoSenderInFreedStream, Sending, NoJob
  <1> QED
    BY <1>1, <1>2, <1>4, <1>5, <1>6

\* ~Stream erases the stream: the count is not touched.
LEMMA DeleteErase_Keeps ==
  ASSUME SendInv, NEW t \in SendThreads, DeleteErase(t)
  PROVE  SendInv'
  <1> USE DEF DeleteErase, InJob, SendInv
  <1>1. JobsOK'
    BY DEF JobsOK, JobType, NoJob, SendLabels, SendOps
  <1>2. LabelsOK'
    BY DEF JobsOK, JobType, LabelsOK, Sending, NoJob
  <1>3. Inside' = Inside
    BY DEF JobsOK, JobType, LabelsOK, Inside, Sending, NoJob
  <1>4. NumbersOK' /\ Counted'
    BY <1>3, SameCount
  <1>5. ClosedWhenNotOpen' /\ ErasedClosed' /\ SleepsForSomebody'
    BY DEF JobsOK, JobType, ClosedWhenNotOpen, ErasedClosed, SleepsForSomebody, NoJob
  <1>6. NoSenderInFreedStream'
    BY DEF JobsOK, JobType, LabelsOK, ClosedWhenNotOpen, ErasedClosed, NoSenderInFreedStream, Sending, NoJob
  <1> QED
    BY <1>1, <1>2, <1>4, <1>5, <1>6

\* ~Stream frees the filters: the count is not touched.
LEMMA DeleteFree_Keeps ==
  ASSUME SendInv, NEW t \in SendThreads, DeleteFree(t)
  PROVE  SendInv'
  <1> USE DEF DeleteFree, InJob, SendInv
  <1>1. JobsOK'
    BY DEF JobsOK, JobType, NoJob, SendLabels, SendOps
  <1>2. LabelsOK'
    BY DEF JobsOK, JobType, LabelsOK, Sending, NoJob
  <1>3. Inside' = Inside
    BY DEF JobsOK, JobType, LabelsOK, Inside, Sending, NoJob
  <1>4. NumbersOK' /\ Counted'
    BY <1>3, SameCount
  <1>5. ClosedWhenNotOpen' /\ ErasedClosed' /\ SleepsForSomebody'
    BY DEF JobsOK, JobType, ClosedWhenNotOpen, ErasedClosed, SleepsForSomebody, NoJob
  <1>6. NoSenderInFreedStream'
    BY DEF JobsOK, JobType, LabelsOK, ClosedWhenNotOpen, ErasedClosed, NoSenderInFreedStream, Sending, NoJob
  <1> QED
    BY <1>1, <1>2, <1>4, <1>5, <1>6

\* send_aux counts itself in.
LEMMA send_aux_Keeps ==
  ASSUME SendInv, NEW t \in SendThreads, send_aux(t)
  PROVE  SendInv'
  <1> USE DEF send_aux, InJob, SendInv
  <1>1. JobsOK'
    BY DEF JobsOK, JobType, SendLabels, SendOps
  <1>2. LabelsOK'
    BY DEF JobsOK, JobType, LabelsOK, Sending
  <1>3. t \notin Inside /\ Inside' = Inside \cup {t}
    BY DEF JobsOK, JobType, LabelsOK, Inside, Sending
  <1>4. Cardinality(Inside') = Cardinality(Inside) + 1
    BY <1>3, InsideFinite, FS_AddElement
  <1>5. NumbersOK' /\ Counted'
    BY <1>4, InsideFinite DEF NumbersOK, Counted
  <1>6. ClosedWhenNotOpen' /\ ErasedClosed' /\ SleepsForSomebody'
    BY DEF JobsOK, JobType, NumbersOK, ClosedWhenNotOpen, ErasedClosed, SleepsForSomebody
  <1>7. NoSenderInFreedStream'
    BY DEF JobsOK, JobType, NoSenderInFreedStream, Sending
  <1> QED
    BY <1>1, <1>2, <1>5, <1>6, <1>7

\* A call that finds the stream closed returns and stays counted: one more has leaked.
LEMMA SendClosed_Keeps ==
  ASSUME SendInv, NEW t \in SendThreads, SendClosed(t)
  PROVE  SendInv'
  <1> USE DEF SendClosed, InJob, SendInv
  <1>1. JobsOK'
    BY DEF JobsOK, JobType, NoJob, SendLabels, SendOps
  <1>2. LabelsOK'
    BY DEF JobsOK, JobType, LabelsOK, Sending, NoJob
  <1>3. t \in Inside /\ Inside' = Inside \ {t}
    BY DEF JobsOK, JobType, LabelsOK, Inside, Sending, NoJob
  <1>4. Cardinality(Inside') = Cardinality(Inside) - 1
    BY <1>3, InsideFinite, FS_RemoveElement
  <1>5. NumbersOK' /\ Counted'
    BY <1>4, InsideFinite DEF NumbersOK, Counted
  <1>6. ClosedWhenNotOpen' /\ ErasedClosed' /\ SleepsForSomebody'
    BY DEF JobsOK, JobType, ClosedWhenNotOpen, ErasedClosed, SleepsForSomebody, NoJob
  <1>7. NoSenderInFreedStream'
    BY DEF JobsOK, JobType, NoSenderInFreedStream, Sending, NoJob
  <1> QED
    BY <1>1, <1>2, <1>5, <1>6, <1>7

\* The end of send_aux counts down, and the last one out wakes the destructor.
LEMMA Leave_Keeps ==
  ASSUME SendInv, NEW t \in SendThreads, Leave(t)
  PROVE  SendInv'
  <1> USE DEF Leave, InJob, SendInv
  <1>1. t \in Inside
    BY DEF LabelsOK, Inside, Sending
  <1>2. num > 0
    <2>1. Cardinality(Inside) # 0
      BY <1>1, InsideFinite, FS_EmptySet
    <2> QED
      BY <2>1, InsideFinite DEF NumbersOK, Counted
  <1>3. JobsOK'
    BY DEF JobsOK, JobType, NoJob, SendLabels, SendOps
  <1>4. LabelsOK'
    BY DEF JobsOK, JobType, LabelsOK, Sending, NoJob
  <1>5. Inside' = Inside \ {t}
    BY DEF JobsOK, JobType, LabelsOK, Inside, Sending, NoJob
  <1>6. Cardinality(Inside') = Cardinality(Inside) - 1
    BY <1>1, <1>5, InsideFinite, FS_RemoveElement
  <1>7. NumbersOK' /\ Counted'
    BY <1>2, <1>6, InsideFinite DEF NumbersOK, Counted
  <1>8. ClosedWhenNotOpen' /\ ErasedClosed' /\ SleepsForSomebody'
    BY DEF JobsOK, JobType, ClosedWhenNotOpen, ErasedClosed, SleepsForSomebody, NoJob
  <1>9. NoSenderInFreedStream'
    BY DEF JobsOK, JobType, LabelsOK, NoSenderInFreedStream, Sending, NoJob
  <1> QED
    BY <1>3, <1>4, <1>7, <1>8, <1>9

\* The destructor closes the stream: nobody is inside, because nobody is counted.
LEMMA DeleteClose_Keeps ==
  ASSUME SendInv, NEW t \in SendThreads, DeleteClose(t)
  PROVE  SendInv'
  <1> USE DEF DeleteClose, InJob, SendInv
  <1>1. JobsOK'
    BY DEF JobsOK, JobType, SendLabels, SendOps
  <1>2. LabelsOK'
    BY DEF JobsOK, JobType, LabelsOK, Sending
  <1>3. Inside' = Inside
    BY DEF JobsOK, JobType, LabelsOK, Inside, Sending
  <1>4. NumbersOK' /\ Counted'
    BY <1>3, SameCount
  <1>5. ClosedWhenNotOpen' /\ ErasedClosed' /\ SleepsForSomebody'
    BY DEF JobsOK, JobType, ClosedWhenNotOpen, ErasedClosed, SleepsForSomebody
  <1>6. Inside' = {}
    <2>1. Cardinality(Inside) = 0
      BY InsideFinite DEF NumbersOK, Counted
    <2> QED
      BY <1>3, <2>1, InsideFinite, FS_EmptySet
  <1>7. NoSenderInFreedStream'
    BY <1>6 DEF Inside, NoSenderInFreedStream
  <1> QED
    BY <1>1, <1>2, <1>4, <1>5, <1>7

\* Every step of the stream preserves the inductive invariant.
LEMMA NextSend == SendInv /\ [SendNext]_sendVars => SendInv'
  <1> SUFFICES ASSUME SendInv, [SendNext]_sendVars PROVE SendInv'
    OBVIOUS
  <1>1. CASE UNCHANGED sendVars
    BY <1>1 DEF sendVars, SendInv, JobsOK, LabelsOK, NumbersOK, Counted, Inside, Sending,
                ClosedWhenNotOpen, ErasedClosed, SleepsForSomebody, NoSenderInFreedStream
  <1>2. CASE SendNext
    BY <1>2, send_Keeps, send_internal_Keeps, proc_Data_Keeps, handle_Timeout_Keeps, send_aux_Keeps,
       SendClosed_Keeps, SendOpen_Keeps, push_Packet_Keeps, Forward_Keeps, SendBack_Keeps, Leave_Keeps,
       close_Keeps, Delete_Keeps, DeleteWait_Keeps, DeleteClose_Keeps, DeleteErase_Keeps, DeleteFree_Keeps
    DEF SendNext
  <1> QED
    BY <1>1, <1>2

\* While the destructor sleeps the count is not zero, so somebody is inside or has leaked.
LEMMA SendInvWakes == SendInv => DestructorIsWoken
  <1> SUFFICES ASSUME SendInv, NEW t \in SendThreads, InJob(t, "dwait"), leaked = 0
               PROVE  \E u \in SendThreads : Sending(u) /\ job[u].pc # "enter"
    BY DEF DestructorIsWoken, SendInv, NumbersOK
  <1>1. Cardinality(Inside) # 0
    BY InsideFinite DEF SendInv, NumbersOK, Counted, SleepsForSomebody, InJob
  <1>2. Inside # {}
    BY <1>1, FS_EmptySet
  <1> QED
    BY <1>2 DEF Inside

-----------------------------------------------------------------------------
\* The inductive invariant holds in every state: _num_sending is the number of calls inside
\* send_aux plus the ones that returned early (Stream::send_aux, ~Stream).
THEOREM SendersAreCounted == SendSpec => []SendInv
  BY InitSend, NextSend, PTL DEF SendSpec

\* No call of send_aux that has begun to filter ever finds the filters deleted, for any number
\* of threads (Stream::~Stream, condition (2)).
THEOREM SendersSafe == SendSpec => []NoSenderInFreedStream
  <1>1. SendInv => NoSenderInFreedStream
    BY DEF SendInv
  <1> QED
    BY <1>1, SendersAreCounted, PTL

\* The destructor never sleeps with nobody left to wake it, unless a call has returned from a
\* closed stream without counting down (Stream::send_aux, STREAM_SEND_EMPTY).
THEOREM DestructorWoken == SendSpec => []DestructorIsWoken
  BY SendersAreCounted, SendInvWakes, PTL


-----------------------------------------------------------------------------
\* Where the packets are that the filters returned (Stream::push_Packet and its four callers).
\* The kinds of call that each kind of process makes, and their directions.
RoleOK(j) ==
  /\ j.op = "send" => role # "CP" /\ j.dir = (IF role = "FE" THEN "down" ELSE "up")
  /\ j.op = "internal" => role # "FE" /\ j.dir = "up"
  /\ j.op = "timeout" => j.dir = "up"
  /\ j.op = "data" => (j.dir = "up" /\ role # "BE") \/ (j.dir = "down" /\ role # "FE")
RolesOK == role \in {"FE", "CP", "BE"} /\ \A t \in SendThreads : RoleOK(job[t])
\* A call has packets in its vectors only while it passes them on.
HoldOK(j) ==
  /\ j.pc \notin {"forward", "reverse"} => j.out = {} /\ j.rev = {}
  /\ j.pc = "forward" /\ role = "BE" /\ j.op = "data" => j.rev = {}
  /\ j.pc = "reverse" /\ j.op # "data" => j.out = {}
HoldsOK == \A t \in SendThreads : HoldOK(job[t])
\* Packets are told apart by their numbers.
MadeOK ==
  /\ \A m \in made : m = [id |-> m.id, want |-> m.want] /\ m.id \in 1..MaxResults
  /\ \A m, n \in made : m.id = n.id => m = n
  /\ \A p \in placed : p = [id |-> p.id, went |-> p.went] /\ \E m \in made : m.id = p.id
\* Nobody else has a packet that a call has, and it is in one of its vectors.
SeparateOK ==
  \A t, u \in SendThreads : \A i \in job[t].out \cup job[t].rev :
    /\ i \in job[u].out \cup job[u].rev => t = u
    /\ i \in job[t].out => i \notin job[t].rev
Unsent(i) == \A p \in placed : p.id # i
Went(i, w) == [id |-> i, went |-> w] \in placed /\ \A p \in placed : p.id = i => p.went = w
\* What a call still has to pass on is nowhere yet; what InternalNode keeps in its vector has
\* gone where it should.
RevOK(t) ==
  \A i \in job[t].rev : [id |-> i, want |-> Beyond(Opposite(job[t].dir))] \in made /\ Unsent(i)
OutOK(t) ==
  \A i \in job[t].out :
    /\ [id |-> i, want |-> Beyond(job[t].dir)] \in made
    /\ IF job[t].pc = "forward" \/ BackEndData(t) THEN Unsent(i) ELSE Went(i, Beyond(job[t].dir))
VectorsOK == \A t \in SendThreads : RevOK(t) /\ OutOK(t)
\* Everything else has gone where it should, or is a stray.
OthersOK ==
  \A m \in made : \/ m.id \in strays \/ Went(m.id, m.want)
                  \/ \E t \in SendThreads : m.id \in job[t].out \cup job[t].rev

WayInv == RolesOK /\ HoldsOK /\ MadeOK /\ SeparateOK /\ VectorsOK /\ OthersOK

\* A step that leaves the packets and the filled vectors alone.
LEMMA QuietStep ==
  ASSUME WayInv, UNCHANGED <<role, made, placed, strays>>,
         \A u \in SendThreads :
           \/ job'[u] = job[u]
           \/ job[u].out = {} /\ job[u].rev = {} /\ job'[u].out = {} /\ job'[u].rev = {}
  PROVE  MadeOK' /\ SeparateOK' /\ VectorsOK' /\ OthersOK'
  <1> USE DEF WayInv
  <1>1. MadeOK'
    BY DEF MadeOK
  <1>2. SeparateOK'
    BY DEF SeparateOK
  <1>3. VectorsOK'
    <2> SUFFICES ASSUME NEW t \in SendThreads PROVE RevOK(t)' /\ OutOK(t)'
      BY DEF VectorsOK
    <2>1. CASE job[t].out = {} /\ job[t].rev = {} /\ job'[t].out = {} /\ job'[t].rev = {}
      BY <2>1 DEF RevOK, OutOK
    <2>2. CASE job'[t] = job[t]
      <3>1. RevOK(t) /\ OutOK(t)
        BY DEF VectorsOK
      <3>2. RevOK(t)'
        BY <2>2, <3>1 DEF RevOK, Unsent, Beyond, Opposite
      <3>3. OutOK(t)'
        <4>1. Beyond(job[t].dir)' = Beyond(job[t].dir)
          BY <2>2 DEF Beyond
        <4>2. BackEndData(t)' <=> BackEndData(t)
          BY <2>2 DEF BackEndData
        <4> QED
          BY <2>2, <3>1, <4>1, <4>2 DEF OutOK, Unsent, Went
      <3> QED
        BY <3>2, <3>3
    <2> QED
      BY <2>1, <2>2
  <1>4. OthersOK'
    <2> SUFFICES ASSUME NEW m \in made, m.id \notin strays,
                        ~(\E t \in SendThreads : m.id \in job'[t].out \cup job'[t].rev)
                 PROVE  Went(m.id, m.want)'
      BY DEF OthersOK
    <2>1. ~(\E t \in SendThreads : m.id \in job[t].out \cup job[t].rev)
      OBVIOUS
    <2>2. Went(m.id, m.want)
      BY <2>1 DEF OthersOK
    <2> QED
      BY <2>2 DEF Went
  <1> QED
    BY <1>1, <1>2, <1>3, <1>4

\* Passing packets on: the ones nobody had yet are now in one place, the others stay where
\* they are.
LEMMA PutEffect ==
  ASSUME NEW ids, NEW w, Put(ids, w)
  PROVE  /\ placed \subseteq placed'
         /\ \A i \in ids : [id |-> i, went |-> w] \in placed'
         /\ \A p \in placed' : p \in placed \/ (p.id \in ids /\ p.went = w /\ p = [id |-> p.id, went |-> p.went])
  BY DEF Put

\* The initial state: no packet has been returned.
LEMMA InitWay == SendInit => WayInv
  <1> SUFFICES ASSUME SendInit PROVE WayInv
    OBVIOUS
  <1>1. \A t \in SendThreads : job[t] = NoJob
    BY DEF SendInit
  <1>2. RolesOK /\ HoldsOK
    BY <1>1 DEF SendInit, RolesOK, RoleOK, HoldsOK, HoldOK, NoJob
  <1>3. MadeOK /\ SeparateOK /\ VectorsOK /\ OthersOK
    BY <1>1 DEF SendInit, MadeOK, SeparateOK, VectorsOK, RevOK, OutOK, OthersOK, NoJob
  <1> QED
    BY <1>2, <1>3 DEF WayInv

\* A call that begins, moves on or ends with empty vectors.
LEMMA QuietCall ==
  ASSUME SendInv, WayInv, NEW t \in SendThreads, NEW j, job' = [job EXCEPT ![t] = j],
         UNCHANGED <<role, made, placed, strays>>,
         job[t].pc \notin {"forward", "reverse"}, j.pc \notin {"forward", "reverse"},
         j.out = {}, j.rev = {}, RoleOK(j)
  PROVE  WayInv'
  <1> USE DEF WayInv, SendInv
  <1>0. \A u \in SendThreads : job'[u] = IF u = t THEN j ELSE job[u]
    BY DEF JobsOK
  <1>1. RolesOK'
    BY <1>0 DEF RolesOK, RoleOK
  <1>2. HoldsOK'
    BY <1>0 DEF HoldsOK, HoldOK, BackEndData
  <1>3. job[t].out = {} /\ job[t].rev = {}
    BY DEF HoldsOK, HoldOK
  <1>4. \A u \in SendThreads :
          \/ job'[u] = job[u]
          \/ job[u].out = {} /\ job[u].rev = {} /\ job'[u].out = {} /\ job'[u].rev = {}
    BY <1>0, <1>3
  <1> QED
    BY <1>1, <1>2, <1>4, QuietStep

\* The calls that begin: send, send_internal, data, a timeout, the destructor.
LEMMA BeginWay ==
  ASSUME SendInv, WayInv, NEW t \in SendThreads,
         send(t) \/ send_internal(t) \/ proc_Data(t) \/ handle_Timeout(t) \/ Delete(t)
  PROVE  WayInv'
  <1> USE DEF InJob
  <1>0. PICK op, dir, l :
          /\ Starts(t, op, dir, l) /\ job[t].pc = "idle" /\ UNCHANGED <<role, made, placed, strays>>
          /\ l \notin {"forward", "reverse"}
          /\ RoleOK([NoJob EXCEPT !.op = op, !.dir = dir, !.pc = l])
    <2>1. CASE send(t)
      BY <2>1 DEF send, NoJob, RoleOK
    <2>2. CASE send_internal(t)
      BY <2>2 DEF send_internal, NoJob, RoleOK
    <2>3. CASE proc_Data(t)
      BY <2>3 DEF proc_Data, NoJob, RoleOK
    <2>4. CASE handle_Timeout(t)
      BY <2>4 DEF handle_Timeout, NoJob, RoleOK
    <2>5. CASE Delete(t)
      BY <2>5 DEF Delete, NoJob, RoleOK
    <2> QED
      BY <2>1, <2>2, <2>3, <2>4, <2>5
  <1> DEFINE j == [NoJob EXCEPT !.op = op, !.dir = dir, !.pc = l]
  <1>1. job' = [job EXCEPT ![t] = j]
    BY <1>0 DEF Starts
  <1>2. j.pc = l /\ j.out = {} /\ j.rev = {}
    BY DEF NoJob
  <1>3. RoleOK(j)
    BY <1>0
  <1> HIDE DEF j
  <1> QED
    BY <1>0, <1>1, <1>2, <1>3, QuietCall

\* The steps of send_aux and of the destructor that only move on.
LEMMA MoveWay ==
  ASSUME SendInv, WayInv, NEW t \in SendThreads,
         send_aux(t) \/ SendOpen(t) \/ DeleteWait(t) \/ DeleteClose(t) \/ DeleteErase(t)
  PROVE  WayInv'
  <1> USE DEF InJob
  <1>0. PICK l \in {"closed?", "filter", "dwait", "erase", "free"} :
          /\ job' = [job EXCEPT ![t].pc = l] /\ job[t].pc \notin {"forward", "reverse"}
          /\ UNCHANGED <<role, made, placed, strays>>
    <2>1. CASE send_aux(t)
      BY <2>1 DEF send_aux
    <2>2. CASE SendOpen(t)
      BY <2>2 DEF SendOpen
    <2>3. CASE DeleteWait(t)
      BY <2>3 DEF DeleteWait
    <2>4. CASE DeleteClose(t)
      BY <2>4 DEF DeleteClose
    <2>5. CASE DeleteErase(t)
      BY <2>5 DEF DeleteErase
    <2> QED
      BY <2>1, <2>2, <2>3, <2>4, <2>5
  <1> DEFINE j == [job[t] EXCEPT !.pc = l]
  <1>1. job' = [job EXCEPT ![t] = j]
    BY <1>0
  <1>2. j.pc = l /\ j.out = job[t].out /\ j.rev = job[t].rev /\ j.op = job[t].op /\ j.dir = job[t].dir
    BY DEF SendInv, JobsOK, JobType
  <1> HIDE DEF j
  <1>3. RoleOK(j)
    BY <1>2 DEF WayInv, RolesOK, RoleOK
  <1>4. j.out = {} /\ j.rev = {}
    BY <1>0, <1>2 DEF WayInv, HoldsOK, HoldOK
  <1> QED
    BY <1>0, <1>1, <1>2, <1>3, <1>4, QuietCall

\* The calls that end with nothing to pass on.
LEMMA EndWay ==
  ASSUME SendInv, WayInv, NEW t \in SendThreads, SendClosed(t) \/ DeleteFree(t)
  PROVE  WayInv'
  <1>1. /\ job' = [job EXCEPT ![t] = NoJob] /\ job[t].pc \notin {"forward", "reverse"}
        /\ UNCHANGED <<role, made, placed, strays>>
    BY DEF SendClosed, DeleteFree, InJob
  <1>2. RoleOK(NoJob) /\ NoJob.pc = "idle" /\ NoJob.out = {} /\ NoJob.rev = {}
    BY DEF NoJob, RoleOK
  <1> QED
    BY <1>1, <1>2, QuietCall

\* The end of send_aux, which may wake the destructor.
LEMMA LeaveWay ==
  ASSUME SendInv, WayInv, NEW t \in SendThreads, Leave(t)
  PROVE  WayInv'
  <1> USE DEF WayInv, SendInv
  <1>0. /\ UNCHANGED <<role, made, placed, strays>> /\ job[t].pc = "leave"
        /\ \A u \in SendThreads :
             \/ job'[u] = job[u]
             \/ u = t /\ job'[u] = NoJob
             \/ job[u].pc = "dwait" /\ job'[u] = [job[u] EXCEPT !.pc = "delete"]
    BY DEF Leave, InJob
  <1>1. \A u \in SendThreads :
          \/ job'[u] = job[u]
          \/ /\ job[u].out = {} /\ job[u].rev = {} /\ job'[u].out = {} /\ job'[u].rev = {}
             /\ job'[u].pc \in {"idle", "delete"} /\ (job'[u].op = "none" \/ (job'[u].op = job[u].op /\ job'[u].dir = job[u].dir))
    <2> TAKE u \in SendThreads
    <2>1. CASE u = t /\ job'[u] = NoJob
      BY <1>0, <2>1 DEF HoldsOK, HoldOK, NoJob
    <2>2. CASE job[u].pc = "dwait" /\ job'[u] = [job[u] EXCEPT !.pc = "delete"]
      <3>1. job[u] \in JobType
        BY DEF JobsOK
      <3> QED
        BY <2>2, <3>1 DEF HoldsOK, HoldOK, JobType
    <2> QED
      BY <1>0, <2>1, <2>2
  <1>2. RolesOK'
    BY <1>0, <1>1 DEF RolesOK, RoleOK
  <1>3. HoldsOK'
    BY <1>0, <1>1 DEF HoldsOK, HoldOK, BackEndData
  <1> QED
    BY <1>0, <1>1, <1>2, <1>3, QuietStep

\* Stream::close leaves the packets alone.
LEMMA CloseWay ==
  ASSUME WayInv, NEW t \in SendThreads, close(t)
  PROVE  WayInv'
  <1>0. UNCHANGED <<role, job, made, placed, strays>>
    BY DEF close
  <1>1. RolesOK' /\ HoldsOK'
    BY <1>0 DEF WayInv, RolesOK, RoleOK, HoldsOK, HoldOK, BackEndData
  <1> QED
    BY <1>0, <1>1, QuietStep DEF WayInv

\* What a call has in its vectors has been returned by a filter.
LEMMA HeldIsMade ==
  ASSUME VectorsOK, NEW t \in SendThreads, NEW i \in job[t].out \cup job[t].rev
  PROVE  \E m \in made : m.id = i
  <1>1. RevOK(t) /\ OutOK(t)
    BY DEF VectorsOK
  <1> QED
    BY <1>1 DEF RevOK, OutOK

\* Stream::push_Packet returns new packets, which only its caller has.
LEMMA PushWay ==
  ASSUME SendInv, WayInv, NEW t \in SendThreads, push_Packet(t)
  PROVE  WayInv'
  <1> USE DEF WayInv, SendInv
  <1>0. PICK out \in SUBSET Fresh, rev \in SUBSET Fresh :
          /\ \A i \in out : i \notin rev
          /\ made' = made \cup {[id |-> i, want |-> Beyond(job[t].dir)] : i \in out}
                          \cup {[id |-> i, want |-> Beyond(Opposite(job[t].dir))] : i \in rev}
          /\ job' = [job EXCEPT ![t] = [@ EXCEPT !.out = out, !.rev = rev,
                                                 !.pc = IF BackEndData(t) THEN "reverse" ELSE "forward"]]
    BY DEF push_Packet
  <1>1. job[t].pc = "filter" /\ UNCHANGED <<role, placed, strays>> /\ job[t].out = {} /\ job[t].rev = {}
    BY DEF push_Packet, InJob, HoldsOK, HoldOK
  <1> DEFINE l == IF BackEndData(t) THEN "reverse" ELSE "forward"
             j == [job[t] EXCEPT !.out = out, !.rev = rev, !.pc = l]
  <1>2. j.out = out /\ j.rev = rev /\ j.pc = l /\ j.op = job[t].op /\ j.dir = job[t].dir
    BY DEF JobsOK, JobType
  <1>3. \A u \in SendThreads : job'[u] = IF u = t THEN j ELSE job[u]
    BY <1>0 DEF JobsOK
  <1> HIDE DEF j
  <1>4. job'[t].out = out /\ job'[t].rev = rev /\ job'[t].pc = l /\ job'[t].op = job[t].op /\ job'[t].dir = job[t].dir
    BY <1>2, <1>3
  <1>5. \A u \in SendThreads : u # t => job'[u] = job[u]
    BY <1>3
  <1>6. \A i \in out \cup rev : i \in 1..MaxResults /\ \A m \in made : m.id # i
    BY DEF Fresh
  <1>7. /\ made \subseteq made'
        /\ \A i \in out : [id |-> i, want |-> Beyond(job[t].dir)] \in made'
        /\ \A i \in rev : [id |-> i, want |-> Beyond(Opposite(job[t].dir))] \in made'
        /\ \A m \in made' : \/ m \in made
                            \/ m.id \in out /\ m = [id |-> m.id, want |-> Beyond(job[t].dir)]
                            \/ m.id \in rev /\ m = [id |-> m.id, want |-> Beyond(Opposite(job[t].dir))]
    BY <1>0
  <1>8. /\ Beyond(job[t].dir)' = Beyond(job[t].dir)
        /\ Beyond(Opposite(job[t].dir))' = Beyond(Opposite(job[t].dir))
    BY <1>1, <1>4 DEF Beyond, Opposite
  <1>9. \A i \in out \cup rev : Unsent(i)'
    BY <1>1, <1>6 DEF MadeOK, Unsent
  <1>10. RolesOK'
    BY <1>1, <1>4, <1>5 DEF RolesOK, RoleOK
  <1>11. HoldsOK'
    <2>1. BackEndData(t) => job[t].op = "data"
      BY DEF BackEndData
    <2> QED
      BY <1>1, <1>4, <1>5, <2>1 DEF HoldsOK, HoldOK, BackEndData
  <1>12. MadeOK'
    <2>1. \A m \in made' : m = [id |-> m.id, want |-> m.want] /\ m.id \in 1..MaxResults
      BY <1>6, <1>7 DEF MadeOK
    <2>2. \A m, n \in made' : m.id = n.id => m = n
      BY <1>0, <1>6, <1>7 DEF MadeOK
    <2>3. \A p \in placed' : p = [id |-> p.id, went |-> p.went] /\ \E m \in made' : m.id = p.id
      BY <1>1, <1>7 DEF MadeOK
    <2> QED
      BY <2>1, <2>2, <2>3 DEF MadeOK
  <1>13. SeparateOK'
    <2> SUFFICES ASSUME NEW u \in SendThreads, NEW v \in SendThreads, NEW i \in job'[u].out \cup job'[u].rev
                 PROVE  /\ i \in job'[v].out \cup job'[v].rev => u = v
                        /\ i \in job'[u].out => i \notin job'[u].rev
      BY DEF SeparateOK
    <2>1. CASE u # t /\ v # t
      BY <1>5, <2>1 DEF SeparateOK
    <2>2. CASE u = t
      <3>1. i \in out \cup rev
        BY <1>4, <2>2
      <3>2. v # t => i \notin job[v].out \cup job[v].rev
        BY <1>6, <3>1, HeldIsMade
      <3> QED
        BY <1>0, <1>4, <1>5, <2>2, <3>1, <3>2
    <2>3. CASE u # t /\ v = t
      <3>1. i \notin out \cup rev
        BY <1>5, <1>6, <2>3, HeldIsMade
      <3> QED
        BY <1>4, <1>5, <2>3, <3>1 DEF SeparateOK
    <2> QED
      BY <2>1, <2>2, <2>3
  <1>14. VectorsOK'
    <2> SUFFICES ASSUME NEW u \in SendThreads PROVE RevOK(u)' /\ OutOK(u)'
      BY DEF VectorsOK
    <2>1. CASE u = t
      <3>1. RevOK(t)'
        BY <1>4, <1>7, <1>8, <1>9 DEF RevOK
      <3>2. job'[t].pc = "forward" \/ BackEndData(t)'
        BY <1>1, <1>4 DEF BackEndData
      <3>3. OutOK(t)'
        BY <1>4, <1>7, <1>8, <1>9, <3>2 DEF OutOK
      <3> QED
        BY <2>1, <3>1, <3>3
    <2>2. CASE u # t
      <3>1. RevOK(u) /\ OutOK(u) /\ job'[u] = job[u]
        BY <1>5, <2>2 DEF VectorsOK
      <3>2. RevOK(u)'
        BY <1>1, <1>7, <3>1 DEF RevOK, Unsent, Beyond, Opposite
      <3>3. Beyond(job[u].dir)' = Beyond(job[u].dir)
        BY <1>1, <3>1 DEF Beyond
      <3>4. BackEndData(u)' <=> BackEndData(u)
        BY <1>1, <3>1 DEF BackEndData
      <3>5. OutOK(u)'
        BY <1>1, <1>7, <3>1, <3>3, <3>4 DEF OutOK, Unsent, Went
      <3> QED
        BY <3>2, <3>5
    <2> QED
      BY <2>1, <2>2
  <1>15. OthersOK'
    <2> SUFFICES ASSUME NEW m \in made', m.id \notin strays,
                        ~(\E u \in SendThreads : m.id \in job'[u].out \cup job'[u].rev)
                 PROVE  Went(m.id, m.want)'
      BY <1>1 DEF OthersOK
    <2>1. m \in made
      BY <1>4, <1>7
    <2>2. ~(\E u \in SendThreads : m.id \in job[u].out \cup job[u].rev)
      BY <1>1, <1>5
    <2>3. Went(m.id, m.want)
      BY <2>1, <2>2 DEF OthersOK
    <2> QED
      BY <1>1, <2>3 DEF Went
  <1> QED
    BY <1>10, <1>11, <1>12, <1>13, <1>14, <1>15

\* A call passes packets of its vectors on: what it keeps is as it should be, and what it
\* drops has gone where it should or is a stray.
LEMMA PassOn ==
  ASSUME SendInv, WayInv, NEW t \in SendThreads, NEW j, NEW ids, NEW w,
         job' = [job EXCEPT ![t] = j], UNCHANGED <<role, made>>, strays \subseteq strays',
         Put(ids, w), ids \subseteq job[t].out \cup job[t].rev,
         j.out \subseteq job[t].out, j.rev \subseteq job[t].rev, RoleOK(j), HoldOK(j),
         RevOK(t)', OutOK(t)',
         \A i \in job[t].out \cup job[t].rev :
           i \in j.out \cup j.rev \/ i \in strays' \/ \E m \in made : m.id = i /\ Went(i, m.want)'
  PROVE  WayInv'
  <1> USE DEF WayInv, SendInv
  <1>1. \A u \in SendThreads : job'[u] = IF u = t THEN j ELSE job[u]
    BY DEF JobsOK
  <1>2. /\ placed \subseteq placed'
        /\ \A p \in placed' : p \in placed \/ (p.id \in ids /\ p.went = w /\ p = [id |-> p.id, went |-> p.went])
    BY PutEffect
  <1>3. RolesOK'
    BY <1>1 DEF RolesOK, RoleOK
  <1>4. HoldsOK'
    BY <1>1 DEF HoldsOK, HoldOK
  <1>5. MadeOK'
    <2>1. \A i \in ids : \E m \in made : m.id = i
      BY HeldIsMade
    <2> QED
      BY <1>2, <2>1 DEF MadeOK
  <1>6. SeparateOK'
    BY <1>1 DEF SeparateOK
  <1>7. \A u \in SendThreads : u # t => \A i \in job[u].out \cup job[u].rev : i \notin ids
    BY DEF SeparateOK
  <1>8. VectorsOK'
    <2> SUFFICES ASSUME NEW u \in SendThreads, u # t PROVE RevOK(u)' /\ OutOK(u)'
      BY DEF VectorsOK
    <2>1. RevOK(u) /\ OutOK(u) /\ job'[u] = job[u]
      BY <1>1 DEF VectorsOK
    <2>2. /\ Beyond(job[u].dir)' = Beyond(job[u].dir)
          /\ Beyond(Opposite(job[u].dir))' = Beyond(Opposite(job[u].dir))
      BY <2>1 DEF Beyond, Opposite
    <2>3. BackEndData(u)' <=> BackEndData(u)
      BY <2>1 DEF BackEndData
    <2>4. \A i \in job[u].out \cup job[u].rev : \A p \in placed' : p.id = i => p \in placed
      BY <1>2, <1>7
    <2>5. RevOK(u)'
      BY <2>1, <2>2, <2>4 DEF RevOK, Unsent
    <2>6. OutOK(u)'
      BY <1>2, <2>1, <2>2, <2>3, <2>4 DEF OutOK, Unsent, Went
    <2> QED
      BY <2>5, <2>6
  <1>9. OthersOK'
    <2> SUFFICES ASSUME NEW m \in made, m.id \notin strays',
                        ~(\E u \in SendThreads : m.id \in job'[u].out \cup job'[u].rev)
                 PROVE  Went(m.id, m.want)'
      BY DEF OthersOK
    <2>1. CASE m.id \in job[t].out \cup job[t].rev
      BY <1>1, <2>1 DEF MadeOK
    <2>2. CASE m.id \notin job[t].out \cup job[t].rev
      <3>1. ~(\E u \in SendThreads : m.id \in job[u].out \cup job[u].rev)
        BY <1>1, <2>2
      <3>2. Went(m.id, m.want)
        BY <3>1 DEF OthersOK
      <3> QED
        BY <1>2, <2>2, <3>2 DEF Went
    <2> QED
      BY <2>1, <2>2
  <1> QED
    BY <1>3, <1>4, <1>5, <1>6, <1>8, <1>9

\* The packets that go on reach the next one in their direction, whatever kind of call and of
\* process passes them on.
LEMMA ForwardWay ==
  ASSUME SendInv, WayInv, NEW t \in SendThreads, Forward(t)
  PROVE  WayInv'
  <1> USE DEF WayInv, SendInv
  <1>0. /\ job[t].pc = "forward" /\ UNCHANGED <<role, made, strays>>
        /\ job[t].op \in {"send", "internal", "timeout", "data"}
        /\ role \in {"FE", "CP", "BE"} /\ RoleOK(job[t]) /\ HoldOK(job[t]) /\ RevOK(t) /\ OutOK(t)
        /\ job[t] \in JobType
    BY DEF Forward, InJob, LabelsOK, JobsOK, JobType, SendOps, RolesOK, HoldsOK, VectorsOK
  <1> PICK w : w = Beyond(job[t].dir)
    OBVIOUS
  <1>1. Put(job[t].out, w)
    BY <1>0 DEF Forward, Beyond, RoleOK
  <1>2. \A i \in job[t].out : Went(i, w)'
    <2> SUFFICES ASSUME NEW i \in job[t].out
                 PROVE  [id |-> i, went |-> w] \in placed' /\ \A p \in placed' : p.id = i => p.went = w
      BY DEF Went
    <2>1. \A p \in placed : p.id # i
      BY <1>0 DEF OutOK, Unsent
    <2> QED
      BY <1>1, <2>1, PutEffect
  <1>3. \A i \in job[t].out : \E m \in made : m.id = i /\ Went(i, m.want)'
    <2> SUFFICES ASSUME NEW i \in job[t].out PROVE \E m \in made : m.id = i /\ Went(i, m.want)'
      OBVIOUS
    <2>1. [id |-> i, want |-> w] \in made
      BY <1>0 DEF OutOK
    <2>2. PICK m \in made : m.id = i /\ m.want = w
      BY <2>1
    <2> QED
      BY <1>2, <2>2
  <1>4. \A i \in job[t].rev : \A p \in placed' : p.id # i
    <2>1. \A i \in job[t].rev : i \notin job[t].out /\ \A p \in placed : p.id # i
      BY <1>0 DEF RevOK, Unsent, SeparateOK
    <2> QED
      BY <1>1, <2>1, PutEffect
  <1>5. CASE BackEndData(t)
    <2>1. job' = [job EXCEPT ![t] = NoJob] /\ job'[t] = NoJob
      BY <1>0, <1>5 DEF Forward, JobsOK
    <2>2. NoJob.out = {} /\ NoJob.rev = {} /\ RoleOK(NoJob) /\ HoldOK(NoJob)
      BY DEF NoJob, RoleOK, HoldOK
    <2>3. RevOK(t)' /\ OutOK(t)'
      BY <2>1, <2>2 DEF RevOK, OutOK
    <2>4. job[t].rev = {}
      BY <1>0, <1>5 DEF HoldOK, BackEndData
    <2> QED
      BY <1>0, <1>1, <1>3, <2>1, <2>2, <2>3, <2>4, PassOn
  <1>6. CASE ~BackEndData(t)
    <2> DEFINE o == IF job[t].op = "data" THEN job[t].out ELSE {}
               j == [job[t] EXCEPT !.pc = "reverse", !.out = o]
    <2>1. job' = [job EXCEPT ![t] = j] /\ job'[t] = j
      BY <1>6 DEF Forward, JobsOK
    <2>2. j.pc = "reverse" /\ j.op = job[t].op /\ j.dir = job[t].dir /\ j.out = o /\ j.rev = job[t].rev
      BY <1>0 DEF JobType
    <2> HIDE DEF j
    <2>3. RoleOK(j) /\ HoldOK(j)
      BY <1>0, <2>2 DEF RoleOK, HoldOK
    <2>4. /\ Beyond(job[t].dir)' = w
          /\ Beyond(Opposite(job[t].dir))' = Beyond(Opposite(job[t].dir))
      BY <1>0, <2>1, <2>2 DEF Beyond, Opposite
    <2>5. RevOK(t)'
      BY <1>0, <1>4, <2>1, <2>2, <2>4 DEF RevOK, Unsent
    <2>6. ~BackEndData(t)' /\ job'[t].pc # "forward"
      BY <1>0, <1>6, <2>1, <2>2 DEF BackEndData
    <2>7. \A i \in o : [id |-> i, want |-> w] \in made /\ Went(i, w)'
      BY <1>0, <1>2 DEF OutOK
    <2>8. OutOK(t)'
      BY <1>0, <2>1, <2>2, <2>4, <2>6, <2>7 DEF OutOK, Went
    <2>9. \A i \in job[t].out \cup job[t].rev :
            i \in j.out \cup j.rev \/ i \in strays' \/ \E m \in made : m.id = i /\ Went(i, m.want)'
      BY <1>3, <2>2
    <2> QED
      BY <1>0, <1>1, <2>1, <2>2, <2>3, <2>5, <2>8, <2>9, PassOn
  <1> QED
    BY <1>5, <1>6

\* The packets that go back reach the next one in the opposite direction, unless the call
\* names the vector of the packets that went on: those two vectors become strays.
LEMMA SendBackPuts ==
  ASSUME SendInv, WayInv, NEW t \in SendThreads, SendBack(t)
  PROVE  \E ids, w :
           /\ Put(ids, w) /\ strays \subseteq strays'
           /\ \/ ids = job[t].rev /\ w = Beyond(Opposite(job[t].dir))
              \/ ids = job[t].out /\ ~BackEndData(t) /\ job[t].out \cup job[t].rev \subseteq strays'
  <1> USE DEF WayInv, SendInv
  <1>0. /\ job[t].pc = "reverse" /\ job[t].op \in {"send", "internal", "timeout", "data"}
        /\ role \in {"FE", "CP", "BE"} /\ RoleOK(job[t])
    BY DEF SendBack, InJob, LabelsOK, JobsOK, JobType, SendOps, RolesOK
  <1>1. CASE job[t].rev = {}
    <2>1. UNCHANGED <<placed, strays>>
      BY <1>1 DEF SendBack
    <2>2. Put(job[t].rev, Beyond(Opposite(job[t].dir)))
      BY <1>1, <2>1 DEF Put
    <2> QED
      BY <2>1, <2>2
  <1> DEFINE mixed == \/ job[t].op = "internal" \/ (job[t].op = "timeout" /\ role # "BE")
                      \/ (job[t].op = "data" /\ role = "CP" /\ job[t].dir = "down")
             where == CASE job[t].op = "send" -> "app"
                        [] job[t].op = "internal" -> "parent"
                        [] job[t].op = "timeout" -> IF role = "BE" THEN "app" ELSE "children"
                        [] OTHER -> IF job[t].dir = "up" THEN "children" ELSE "parent"
  <1>2. CASE job[t].rev # {} /\ mixed
    <2>1. Put(job[t].out, where) /\ strays' = strays \cup job[t].out \cup job[t].rev
      BY <1>2 DEF SendBack
    <2>2. ~BackEndData(t)
      BY <1>2 DEF BackEndData
    <2> QED
      BY <2>1, <2>2
  <1>3. CASE job[t].rev # {} /\ ~mixed
    <2>1. Put(job[t].rev, where) /\ strays' = strays
      BY <1>3 DEF SendBack
    <2>2. where = Beyond(Opposite(job[t].dir))
      BY <1>0, <1>3 DEF RoleOK, Beyond, Opposite
    <2> QED
      BY <2>1, <2>2
  <1> QED
    BY <1>1, <1>2, <1>3

\* How a call ends after it has sent packets back.
LEMMA SendBackEnds ==
  ASSUME SendInv, WayInv, NEW t \in SendThreads, SendBack(t)
  PROVE  \E j :
           /\ job' = [job EXCEPT ![t] = j] /\ job'[t] = j /\ j.rev = {} /\ RoleOK(j) /\ HoldOK(j)
           /\ \/ j.out = {} /\ ~BackEndData(t)
              \/ /\ j.out = job[t].out /\ BackEndData(t)
                 /\ j.pc = "forward" /\ j.dir = job[t].dir
  <1> USE DEF WayInv, SendInv
  <1>0. /\ job[t].pc = "reverse" /\ Ended(t) /\ RoleOK(job[t]) /\ HoldOK(job[t]) /\ job[t] \in JobType
    BY DEF SendBack, InJob, JobsOK, RolesOK, HoldsOK
  <1>1. CASE Sending(t)
    <2> DEFINE j == [job[t] EXCEPT !.pc = "leave", !.rev = {}]
    <2>1. job' = [job EXCEPT ![t] = j] /\ job'[t] = j
      BY <1>0, <1>1 DEF Ended, BackEndData, Sending, JobsOK
    <2>2. j.pc = "leave" /\ j.rev = {} /\ j.out = job[t].out /\ j.op = job[t].op /\ j.dir = job[t].dir
      BY <1>0 DEF JobType
    <2> HIDE DEF j
    <2>3. j.out = {} /\ ~BackEndData(t)
      BY <1>0, <1>1, <2>2 DEF HoldOK, Sending, BackEndData
    <2>4. RoleOK(j) /\ HoldOK(j)
      BY <1>0, <2>2, <2>3 DEF RoleOK, HoldOK
    <2> QED
      BY <2>1, <2>2, <2>3, <2>4
  <1>2. CASE BackEndData(t)
    <2> DEFINE j == [job[t] EXCEPT !.pc = "forward", !.rev = {}]
    <2>1. job' = [job EXCEPT ![t] = j] /\ job'[t] = j
      BY <1>0, <1>2 DEF Ended, BackEndData, Sending, JobsOK
    <2>2. j.pc = "forward" /\ j.rev = {} /\ j.out = job[t].out /\ j.op = job[t].op /\ j.dir = job[t].dir
      BY <1>0 DEF JobType
    <2> HIDE DEF j
    <2>3. RoleOK(j) /\ HoldOK(j)
      BY <1>0, <2>2 DEF RoleOK, HoldOK
    <2> QED
      BY <1>2, <2>1, <2>2, <2>3
  <1>3. CASE ~Sending(t) /\ ~BackEndData(t)
    <2>1. job' = [job EXCEPT ![t] = NoJob] /\ job'[t] = NoJob
      BY <1>0, <1>3 DEF Ended, JobsOK
    <2>2. NoJob.out = {} /\ NoJob.rev = {} /\ RoleOK(NoJob) /\ HoldOK(NoJob)
      BY DEF NoJob, RoleOK, HoldOK
    <2> QED
      BY <1>3, <2>1, <2>2
  <1> QED
    BY <1>1, <1>2, <1>3

\* Sending packets back keeps the account of the packets.
LEMMA SendBackWay ==
  ASSUME SendInv, WayInv, NEW t \in SendThreads, SendBack(t)
  PROVE  WayInv'
  <1> USE DEF WayInv, SendInv
  <1>0. job[t].pc = "reverse" /\ UNCHANGED <<role, made>> /\ RevOK(t) /\ OutOK(t) /\ HoldOK(job[t])
    BY DEF SendBack, InJob, VectorsOK, HoldsOK
  <1>1. PICK ids, w :
          /\ Put(ids, w) /\ strays \subseteq strays'
          /\ \/ ids = job[t].rev /\ w = Beyond(Opposite(job[t].dir))
             \/ ids = job[t].out /\ ~BackEndData(t) /\ job[t].out \cup job[t].rev \subseteq strays'
    BY SendBackPuts
  <1>2. PICK j :
          /\ job' = [job EXCEPT ![t] = j] /\ job'[t] = j /\ j.rev = {} /\ RoleOK(j) /\ HoldOK(j)
          /\ \/ j.out = {} /\ ~BackEndData(t)
             \/ /\ j.out = job[t].out /\ BackEndData(t)
                /\ j.pc = "forward" /\ j.dir = job[t].dir
    BY SendBackEnds
  <1> PICK d : d = Beyond(job[t].dir)
    OBVIOUS
  <1>3. RevOK(t)'
    BY <1>2 DEF RevOK
  <1>4. \A i \in job[t].out : i \notin job[t].rev
    BY DEF SeparateOK
  <1>5. CASE BackEndData(t)
    <2>1. ids = job[t].rev /\ j.out = job[t].out /\ j.pc = "forward" /\ j.dir = job[t].dir
      BY <1>1, <1>2, <1>5
    <2>2. Beyond(job[t].dir)' = d
      BY <1>0, <1>2, <2>1 DEF Beyond
    <2>3. \A i \in job[t].out : [id |-> i, want |-> d] \in made /\ \A p \in placed : p.id # i
      BY <1>0, <1>5 DEF OutOK, Unsent
    <2>4. \A i \in job[t].out : \A p \in placed' : p.id # i
      <3>1. \A p \in placed' : p \in placed \/ p.id \in job[t].rev
        BY <1>1, <2>1, PutEffect
      <3> QED
        BY <1>4, <2>3, <3>1
    <2>5. OutOK(t)'
      BY <1>0, <1>2, <2>1, <2>2, <2>3, <2>4 DEF OutOK, Unsent
    <2>6. \A i \in job[t].rev : \E m \in made : m.id = i /\ Went(i, m.want)'
      <3> SUFFICES ASSUME NEW i \in job[t].rev PROVE \E m \in made : m.id = i /\ Went(i, m.want)'
        OBVIOUS
      <3>1. [id |-> i, want |-> w] \in made /\ \A p \in placed : p.id # i
        BY <1>0, <1>1, <1>5 DEF RevOK, Unsent
      <3>2. PICK m \in made : m.id = i /\ m.want = w
        BY <3>1
      <3>3. Went(i, w)'
        BY <1>1, <2>1, <3>1, PutEffect DEF Went
      <3> QED
        BY <3>2, <3>3
    <2> QED
      BY <1>0, <1>1, <1>2, <1>3, <2>1, <2>5, <2>6, PassOn
  <1>6. CASE ~BackEndData(t) /\ job[t].out \cup job[t].rev \subseteq strays'
    <2>1. j.out = {}
      BY <1>2, <1>6
    <2>2. OutOK(t)'
      BY <1>2, <2>1 DEF OutOK
    <2> QED
      BY <1>0, <1>1, <1>2, <1>3, <1>6, <2>1, <2>2, PassOn
  <1>7. CASE ~BackEndData(t) /\ ids = job[t].rev /\ w = Beyond(Opposite(job[t].dir))
    <2>1. j.out = {}
      BY <1>2, <1>7
    <2>2. OutOK(t)'
      BY <1>2, <2>1 DEF OutOK
    <2>3. \A i \in job[t].rev : \E m \in made : m.id = i /\ Went(i, m.want)'
      <3> SUFFICES ASSUME NEW i \in job[t].rev PROVE \E m \in made : m.id = i /\ Went(i, m.want)'
        OBVIOUS
      <3>1. [id |-> i, want |-> w] \in made /\ \A p \in placed : p.id # i
        BY <1>0, <1>7 DEF RevOK, Unsent
      <3>2. PICK m \in made : m.id = i /\ m.want = w
        BY <3>1
      <3>3. Went(i, w)'
        BY <1>1, <1>7, <3>1, PutEffect DEF Went
      <3> QED
        BY <3>2, <3>3
    <2>4. \A i \in job[t].out : \E m \in made : m.id = i /\ Went(i, m.want)'
      <3> SUFFICES ASSUME NEW i \in job[t].out PROVE \E m \in made : m.id = i /\ Went(i, m.want)'
        OBVIOUS
      <3>1. [id |-> i, want |-> d] \in made /\ Went(i, d)
        BY <1>0, <1>7 DEF OutOK
      <3>2. PICK m \in made : m.id = i /\ m.want = d
        BY <3>1
      <3>3. Went(i, d)'
        BY <1>1, <1>4, <1>7, <3>1, PutEffect DEF Went
      <3> QED
        BY <3>2, <3>3
    <2> QED
      BY <1>0, <1>1, <1>2, <1>3, <1>7, <2>1, <2>2, <2>3, <2>4, PassOn
  <1> QED
    BY <1>1, <1>5, <1>6, <1>7

\* Every step of the stream keeps the account of the packets.
LEMMA NextWay == SendInv /\ WayInv /\ [SendNext]_sendVars => WayInv'
  <1> SUFFICES ASSUME SendInv, WayInv, [SendNext]_sendVars PROVE WayInv'
    OBVIOUS
  <1>1. CASE UNCHANGED sendVars
    <2>1. UNCHANGED <<role, job, made, placed, strays>>
      BY <1>1 DEF sendVars
    <2>2. RolesOK' /\ HoldsOK'
      BY <2>1 DEF WayInv, RolesOK, RoleOK, HoldsOK, HoldOK
    <2> QED
      BY <2>1, <2>2, QuietStep DEF WayInv
  <1>2. CASE SendNext
    BY <1>2, BeginWay, MoveWay, EndWay, LeaveWay, CloseWay, PushWay, ForwardWay, SendBackWay DEF SendNext
  <1> QED
    BY <1>1, <1>2

\* The account of the packets says where every packet went.
LEMMA WayInvGoes == WayInv => ResultsGoTheirWay
  <1> SUFFICES ASSUME WayInv, NEW m \in made, Went(m.id, m.want)
               PROVE  {p \in placed : p.id = m.id} = {[id |-> m.id, went |-> m.want]}
    BY DEF WayInv, OthersOK, ResultsGoTheirWay
  <1>1. \A p \in placed : p = [id |-> p.id, went |-> p.went]
    BY DEF WayInv, MadeOK
  <1> QED
    BY <1>1 DEF Went

\* What a filter returns goes to the right neighbour or to the application, and to it alone, in
\* every kind of process and for any number of threads and packets; only the packets of the
\* calls that mix up the two vectors are exempt (Stream::send_aux, EventDetector::handle_Timeout,
\* proc_DataFromParent, proc_DataFromChildren).
THEOREM ResultsGoTheirWayTheorem == SendSpec => []ResultsGoTheirWay
  <1>1. SendInit => SendInv /\ WayInv
    BY InitSend, InitWay
  <1>2. SendInv /\ WayInv /\ [SendNext]_sendVars => (SendInv /\ WayInv)'
    BY NextSend, NextWay
  <1> QED
    BY <1>1, <1>2, WayInvGoes, PTL DEF SendSpec

-----------------------------------------------------------------------------
(* StreamRecv: the buffers of the streams and Network::recv. *)

Labels == NetLabels \cup StreamLabels \cup ProducerLabels \cup CloserLabels

\* TypeOK in two parts: where a thread of each kind can be, and the data.
PcType ==
  /\ pc \in [Threads -> Labels]
  /\ \A t \in NetReceivers : pc[t] \in NetLabels
  /\ \A t \in StreamReceivers : pc[t] \in StreamLabels
  /\ \A t \in Producers : pc[t] \in ProducerLabels
  /\ pc["edt"] \in CloserLabels /\ pc["shut"] \in CloserLabels
DataType ==
  /\ process \in Processes /\ waiting \subseteq Threads
  /\ target \in [Threads -> Streams \cup {0}] /\ startIter \in [Threads -> Streams \cup {0}]
  /\ scan \in [Threads -> SUBSET Streams]
  /\ mode \in [Threads -> {"block", "poll", "polled"}]
  /\ streamsLock \in Threads \cup {NoOne}
  /\ streams \subseteq created /\ created \subseteq Streams
  /\ streamIter \in Streams \cup {0}
  /\ buffer \in [Streams -> 0 .. MaxBuffer] /\ closed \in [Streams -> BOOLEAN]
  /\ shutDown \in BOOLEAN
  /\ owed \in [Streams -> 0 .. MaxBuffer] /\ last \in Streams \cup {0}

\* A thread the process does not have never enters the library.
InactiveInv == \A t \in Threads \ process.threads : pc[t] = "idle"

\* What a receiver found is still there when it comes back to it: the stream whose packet
\* it took, and the packet it was woken for.
FoundInv ==
  /\ \A t \in NetReceivers : pc[t] \in {"advfound", "deliver"} => target[t] \in streams
  /\ \A t \in StreamReceivers :
       /\ pc[t] = "scheck" => buffer[Reads[t]] > 0 \/ closed[Reads[t]]
       /\ pc[t] = "sget2" => buffer[Reads[t]] > 0

\* waitfor_NonEmptyStream looks, and the event detector and close_Streams close, with
\* _streams_sync held.
LockInv ==
  /\ \A t \in NetReceivers :
       pc[t] \in {"scandata", "shutcheck", "scanclosed"} => streamsLock = t /\ scan[t] \subseteq streams
  /\ \A t \in {"edt", "shut"} : pc[t] \in {"c_set", "c_signal"} => streamsLock = t

\* A receive thread closes one stream at a time, and only in a back-end.
CloserInv ==
  \A u \in Producers :
    /\ scan[u] = {}
    /\ process.fe => pc[u] \notin {"c_set", "c_signal"}

\* No packet is owed on stream s, and none will be if s is closed before _streams_sync is
\* released: s is empty, or nobody is about to close it.
Settled(s) ==
  /\ owed[s] = 0
  /\ buffer[s] > 0 => \A u \in Producers : ~(pc[u] = "c_set" /\ target[u] = s)

\* The streams that waitfor_NonEmptyStream found empty are settled until it unlocks ...
LookInv ==
  \A t \in NetReceivers :
    /\ pc[t] = "scandata" => \A s \in streams \ scan[t] : Settled(s)
    /\ pc[t] \in {"shutcheck", "scanclosed"} => \A s \in streams : Settled(s)

\* ... and the closed stream it then deletes stays empty of what is owed.
DeleteInv ==
  \A t \in NetReceivers :
    pc[t] = "delclosed" => target[t] \in Streams /\ closed[target[t]] /\ owed[target[t]] = 0

\* What is owed is in the buffer.
OwedInv == \A s \in Streams : owed[s] <= buffer[s]

RecvInv ==
  /\ PcType /\ DataType /\ IteratorValid /\ AssertionsHold
  /\ InactiveInv /\ FoundInv /\ LockInv /\ CloserInv
  /\ OwedInv /\ LookInv /\ DeleteInv

-----------------------------------------------------------------------------
\* A set of numbers that is not empty has a smallest element.
LEMMA SmallestNumber ==
  ASSUME NEW S \in SUBSET Nat, S # {}
  PROVE  \E x \in S : \A y \in S : x <= y
  <1> DEFINE R == OpToRel(<, Nat)
  <1>1. IsWellFoundedOn(R, Nat)
    BY NatLessThanWellFounded, Zenon
  <1>2. R = {ss \in Nat \X Nat : ss[1] < ss[2]}
    BY DEF OpToRel
  <1> HIDE DEF R
  <1>3. PICK x \in S : \A y \in S : ~(<<y, x>> \in R)
    BY <1>1, WFMin
  <1>4. \A y \in S : ~(y < x)
    BY <1>2, <1>3
  <1> QED BY <1>4

\* begin() of a map that is not empty is one of its entries.
LEMMA MinIsIn ==
  ASSUME NEW S \in SUBSET Streams, S # {}
  PROVE  Min(S) \in S
  BY SmallestNumber, StreamsAssumption DEF Min

\* The iterator, moved on, stands at an entry as long as there is one.
LEMMA AfterIsIn ==
  ASSUME NEW i, NEW S \in SUBSET Streams
  PROVE  /\ After(i, S) \in Streams \cup {0}
         /\ S # {} => After(i, S) \in S
  <1> DEFINE above == {s \in S : s > i}
  <1>1. CASE above # {}
    BY <1>1, MinIsIn DEF After
  <1>2. CASE above = {} /\ S # {}
    BY <1>2, MinIsIn DEF After
  <1>3. CASE above = {} /\ S = {}
    BY <1>3 DEF After
  <1> QED BY <1>1, <1>2, <1>3

\* The kinds of threads are distinct.
LEMMA ThreadFacts ==
  /\ NetReceivers \subseteq Threads /\ StreamReceivers \subseteq Threads /\ Producers \subseteq Threads
  /\ "edt" \in Threads /\ "shut" \in Threads /\ NoOne \notin Threads
  /\ \A t \in NetReceivers : t \notin StreamReceivers /\ t \notin Producers /\ t # "edt" /\ t # "shut"
  /\ \A t \in StreamReceivers : t \notin NetReceivers /\ t \notin Producers /\ t # "edt" /\ t # "shut"
  /\ \A t \in Producers : t \notin NetReceivers /\ t \notin StreamReceivers /\ t # "edt" /\ t # "shut"
  /\ "edt" \notin NetReceivers /\ "edt" \notin StreamReceivers /\ "edt" \notin Producers
  /\ "shut" \notin NetReceivers /\ "shut" \notin StreamReceivers /\ "shut" \notin Producers
  BY ThreadsAssumption DEF Threads, NoOne

\* A thread goes from one location of its kind to another.
LEMMA PcStep == ASSUME PcType, Next PROVE PcType'
  <1> USE ThreadFacts DEF PcType, NetLabels, StreamLabels, ProducerLabels, CloserLabels, Labels
  <1>1. ASSUME NEW t \in NetReceivers, NewStream(t) PROVE PcType'
    BY <1>1 DEF NewStream, Goto, At, Idle
  <1>2. ASSUME NEW t \in NetReceivers, NetRecvCall(t) PROVE PcType'
    BY <1>2 DEF NetRecvCall, Goto, At, Idle
  <1>3. ASSUME NEW t \in NetReceivers, DestroyStream(t) PROVE PcType'
    BY <1>3 DEF DestroyStream, Goto, At, Idle
  <1>4. ASSUME NEW t \in NetReceivers, NetRecvHave(t) PROVE PcType'
    BY <1>4 DEF NetRecvHave, Goto, At, Idle
  <1>5. ASSUME NEW t \in NetReceivers, NetRecvStart(t) PROVE PcType'
    BY <1>5 DEF NetRecvStart, Goto, At, Idle
  <1>6. ASSUME NEW t \in NetReceivers, NetRecvLook(t) PROVE PcType'
    BY <1>6 DEF NetRecvLook, GetIncomingPacket, Goto, At, Idle
  <1>7. ASSUME NEW t \in NetReceivers, NetRecvAdvance(t) PROVE PcType'
    BY <1>7 DEF NetRecvAdvance, Goto, At, Idle
  <1>8. ASSUME NEW t \in NetReceivers, NetRecvDeliver(t) PROVE PcType'
    BY <1>8 DEF NetRecvDeliver, Goto, At, Idle
  <1>9. ASSUME NEW t \in NetReceivers, NetRecvBool(t) PROVE PcType'
    BY <1>9 DEF NetRecvBool, Goto, At, Idle
  <1>10. ASSUME NEW t \in NetReceivers, WaitForLock(t) PROVE PcType'
    BY <1>10 DEF WaitForLock, Acquire, Goto, At, Idle
  <1>11. ASSUME NEW t \in NetReceivers, ScanData(t) PROVE PcType'
    BY <1>11 DEF ScanData, Release, Goto, At, Idle
  <1>12. ASSUME NEW t \in NetReceivers, ShutCheck(t) PROVE PcType'
    BY <1>12 DEF ShutCheck, Release, Goto, At, Idle
  <1>13. ASSUME NEW t \in NetReceivers, ScanClosed(t) PROVE PcType'
    BY <1>13 DEF ScanClosed, Release, Goto, At, Idle
  <1>14. ASSUME NEW t \in NetReceivers, DeleteClosed(t) PROVE PcType'
    BY <1>14 DEF DeleteClosed, EraseStream, Goto, At, Idle
  <1>15. ASSUME NEW t \in NetReceivers, DestroyErase(t) PROVE PcType'
    BY <1>15 DEF DestroyErase, EraseStream, Goto, At, Idle
  <1>16. ASSUME NEW t \in StreamReceivers, StreamRecvCall(t) PROVE PcType'
    BY <1>16 DEF StreamRecvCall, Goto, At, Idle
  <1>17. ASSUME NEW t \in StreamReceivers, StreamRecvGet(t) PROVE PcType'
    BY <1>17 DEF StreamRecvGet, GetIncomingPacket, Goto, At, Idle
  <1>18. ASSUME NEW t \in StreamReceivers, StreamRecvClosed(t) PROVE PcType'
    BY <1>18 DEF StreamRecvClosed, Goto, At, Idle
  <1>19. ASSUME NEW t \in StreamReceivers, BlockForIncomingPacket(t) PROVE PcType'
    BY <1>19 DEF BlockForIncomingPacket, Goto, At, Idle
  <1>20. ASSUME NEW t \in Producers, NewStream(t) PROVE PcType'
    BY <1>20 DEF NewStream, Goto, At, Idle
  <1>21. ASSUME NEW t \in Producers, Lookup(t) PROVE PcType'
    BY <1>21 DEF Lookup, Goto, At, Idle
  <1>22. ASSUME NEW t \in Producers, BackEndDeleteStream(t) PROVE PcType'
    BY <1>22 DEF BackEndDeleteStream, Goto, At, Idle
  <1>23. ASSUME NEW t \in Producers, Push(t) PROVE PcType'
    BY <1>23 DEF Push, Goto, At, Idle
  <1>24. ASSUME NEW t \in Producers, SignalStream(t) PROVE PcType'
    BY <1>24 DEF SignalStream, Signal, Goto, At, Idle
  <1>25. ASSUME NEW t \in Producers, SignalNonEmptyStream(t) PROVE PcType'
    BY <1>25 DEF SignalNonEmptyStream, Signal, Goto, At, Idle
  <1>26. ASSUME EdtRemoveNode PROVE PcType'
    BY <1>26 DEF EdtRemoveNode, CloseLoop, Acquire, Goto, At, Idle
  <1>27. ASSUME NEW t \in Threads \ StreamReceivers, CloseSet(t) PROVE PcType'
    BY <1>27 DEF CloseSet, Goto, At, Idle
  <1>28. ASSUME NEW t \in Threads \ StreamReceivers, CloseSignal(t) PROVE PcType'
    BY <1>28 DEF CloseSignal, Signal, Release, Goto, At, Idle
  <1>29. ASSUME ShutDownSet PROVE PcType'
    BY <1>29 DEF ShutDownSet, Goto, At, Idle
  <1>30. ASSUME ShutDownSignal PROVE PcType'
    BY <1>30 DEF ShutDownSignal, Signal, Goto, At, Idle
  <1>31. ASSUME CloseStreams PROVE PcType'
    BY <1>31 DEF CloseStreams, CloseLoop, Acquire, Goto, At, Idle
  <1> QED
    BY <1>1, <1>2, <1>3, <1>4, <1>5, <1>6, <1>7, <1>8, <1>9, <1>10, <1>11, <1>12, <1>13, <1>14, <1>15, <1>16, <1>17, <1>18, <1>19, <1>20, <1>21, <1>22, <1>23, <1>24, <1>25, <1>26, <1>27, <1>28, <1>29, <1>30, <1>31
       DEF Next, NetRecvStep, WaitForNonEmptyStream, StreamRecvStep, ProducerStep,
           AddIncomingPacket, CloseStep, ShutStep

\* A packet is taken from a stream.
LEMMA GetFacts ==
  ASSUME DataType, NEW s \in Streams, GetIncomingPacket(s)
  PROVE  /\ buffer' \in [Streams -> 0 .. MaxBuffer] /\ closed' = closed
         /\ owed' \in [Streams -> 0 .. MaxBuffer] /\ last' \in Streams \cup {0}
         /\ \A r \in Streams : buffer'[r] <= buffer[r] /\ owed'[r] <= owed[r]
         /\ (\A r \in Streams : owed[r] <= buffer[r]) => (\A r \in Streams : owed'[r] <= buffer'[r])
  BY MaxBufferAssumption DEF GetIncomingPacket, DataType

\* The steps keep the types of the data.
LEMMA DataStep == ASSUME PcType, DataType, Next PROVE DataType'
  <1> USE ThreadFacts, MinIsIn, AfterIsIn DEF DataType, callVars, mapVars, strmVars, env
  <1>1. ASSUME NEW t \in NetReceivers, NewStream(t) PROVE DataType'
    BY <1>1, ProcessesAssumption DEF NewStream
  <1>2. ASSUME NEW t \in NetReceivers, NetRecvCall(t) PROVE DataType'
    BY <1>2 DEF NetRecvCall, Goto, At, Idle
  <1>3. ASSUME NEW t \in NetReceivers, DestroyStream(t) PROVE DataType'
    BY <1>3 DEF DestroyStream, Goto, At, Idle
  <1>4. ASSUME NEW t \in NetReceivers, NetRecvHave(t) PROVE DataType'
    BY <1>4 DEF NetRecvHave, Goto, At, Idle
  <1>5. ASSUME NEW t \in NetReceivers, NetRecvStart(t) PROVE DataType'
    BY <1>5 DEF NetRecvStart, Goto, At, Idle
  <1>6. ASSUME NEW t \in NetReceivers, NetRecvLook(t) PROVE DataType'
    <2>1. streamIter \in Streams /\ target' \in [Threads -> Streams \cup {0}]
      BY <1>6 DEF NetRecvLook
    <2>2. CASE GetIncomingPacket(streamIter)
      BY <1>6, <2>1, <2>2, GetFacts DEF NetRecvLook
    <2>3. CASE UNCHANGED strmVars
      BY <1>6, <2>1, <2>3 DEF NetRecvLook
    <2> QED BY <1>6, <2>2, <2>3 DEF NetRecvLook
  <1>7. ASSUME NEW t \in NetReceivers, NetRecvAdvance(t) PROVE DataType'
    BY <1>7 DEF NetRecvAdvance, Goto, At, Idle
  <1>8. ASSUME NEW t \in NetReceivers, NetRecvDeliver(t) PROVE DataType'
    BY <1>8 DEF NetRecvDeliver, Goto, At, Idle
  <1>9. ASSUME NEW t \in NetReceivers, NetRecvBool(t) PROVE DataType'
    BY <1>9 DEF NetRecvBool, Goto, At, Idle
  <1>10. ASSUME NEW t \in NetReceivers, WaitForLock(t) PROVE DataType'
    BY <1>10 DEF WaitForLock, Acquire, Goto, At, Idle
  <1>11. ASSUME NEW t \in NetReceivers, ScanData(t) PROVE DataType'
    BY <1>11 DEF ScanData, Release, Goto, At, Idle
  <1>12. ASSUME NEW t \in NetReceivers, ShutCheck(t) PROVE DataType'
    BY <1>12 DEF ShutCheck, Release, Goto, At, Idle
  <1>13. ASSUME NEW t \in NetReceivers, ScanClosed(t) PROVE DataType'
    BY <1>13 DEF ScanClosed, Release, Goto, At, Idle
  <1>14. ASSUME NEW t \in NetReceivers, DeleteClosed(t) PROVE DataType'
    BY <1>14 DEF DeleteClosed, EraseStream, Goto, At, Idle
  <1>15. ASSUME NEW t \in NetReceivers, DestroyErase(t) PROVE DataType'
    BY <1>15 DEF DestroyErase, EraseStream, Goto, At, Idle
  <1>16. ASSUME NEW t \in StreamReceivers, StreamRecvCall(t) PROVE DataType'
    BY <1>16 DEF StreamRecvCall, Goto, At, Idle
  <1>17. ASSUME NEW t \in StreamReceivers, StreamRecvGet(t) PROVE DataType'
    <2>1. Reads[t] \in Streams
      BY ReadsAssumption
    <2>2. CASE GetIncomingPacket(Reads[t])
      BY <1>17, <2>1, <2>2, GetFacts DEF StreamRecvGet
    <2>3. CASE UNCHANGED strmVars
      BY <1>17, <2>3 DEF StreamRecvGet
    <2> QED BY <1>17, <2>2, <2>3 DEF StreamRecvGet
  <1>18. ASSUME NEW t \in StreamReceivers, StreamRecvClosed(t) PROVE DataType'
    BY <1>18 DEF StreamRecvClosed, Goto, At, Idle
  <1>19. ASSUME NEW t \in StreamReceivers, BlockForIncomingPacket(t) PROVE DataType'
    BY <1>19 DEF BlockForIncomingPacket, Goto, At, Idle
  <1>20. ASSUME NEW t \in Producers, NewStream(t) PROVE DataType'
    BY <1>20, ProcessesAssumption DEF NewStream
  <1>21. ASSUME NEW t \in Producers, Lookup(t) PROVE DataType'
    BY <1>21 DEF Lookup, Goto, At, Idle
  <1>22. ASSUME NEW t \in Producers, BackEndDeleteStream(t) PROVE DataType'
    BY <1>22 DEF BackEndDeleteStream, Goto, At, Idle
  <1>23. ASSUME NEW t \in Producers, Push(t) PROVE DataType'
    <2>1. CASE target[t] \in Streams
      BY <1>23, <2>1, MaxBufferAssumption DEF Push
    <2>2. CASE target[t] \notin Streams
      <3>1. buffer' \in [Streams -> 0 .. MaxBuffer]
        BY <1>23, <2>2 DEF Push
      <3> QED BY <1>23, <3>1 DEF Push
    <2> QED BY <2>1, <2>2
  <1>24. ASSUME NEW t \in Producers, SignalStream(t) PROVE DataType'
    BY <1>24 DEF SignalStream, Signal, Goto, At, Idle
  <1>25. ASSUME NEW t \in Producers, SignalNonEmptyStream(t) PROVE DataType'
    BY <1>25 DEF SignalNonEmptyStream, Signal, Goto, At, Idle
  <1>26. ASSUME EdtRemoveNode PROVE DataType'
    BY <1>26 DEF EdtRemoveNode, CloseLoop, Acquire, Goto, At, Idle
  <1>27. ASSUME NEW t \in Threads \ StreamReceivers, CloseSet(t) PROVE DataType'
    BY <1>27 DEF CloseSet, Goto, At, Idle
  <1>28. ASSUME NEW t \in Threads \ StreamReceivers, CloseSignal(t) PROVE DataType'
    BY <1>28 DEF CloseSignal, Signal, Release, Goto, At, Idle
  <1>29. ASSUME ShutDownSet PROVE DataType'
    BY <1>29 DEF ShutDownSet, Goto, At, Idle
  <1>30. ASSUME ShutDownSignal PROVE DataType'
    BY <1>30 DEF ShutDownSignal, Signal, Goto, At, Idle
  <1>31. ASSUME CloseStreams PROVE DataType'
    BY <1>31 DEF CloseStreams, CloseLoop, Acquire, Goto, At, Idle
  <1> QED
    BY <1>1, <1>2, <1>3, <1>4, <1>5, <1>6, <1>7, <1>8, <1>9, <1>10, <1>11, <1>12, <1>13, <1>14, <1>15, <1>16, <1>17, <1>18, <1>19, <1>20, <1>21, <1>22, <1>23, <1>24, <1>25, <1>26, <1>27, <1>28, <1>29, <1>30, <1>31
       DEF Next, NetRecvStep, WaitForNonEmptyStream, StreamRecvStep, ProducerStep,
           AddIncomingPacket, CloseStep, ShutStep

-----------------------------------------------------------------------------
\* While the application is in a call of one thread, its other threads are in none, and
\* neither are a back-end's other receive threads.
LEMMA Alone ==
  ASSUME DataType, InactiveInv
  PROVE  /\ \A t, u \in NetReceivers \cup StreamReceivers :
              pc[t] # "idle" /\ pc[u] # "idle" => t = u
         /\ ~process.fe => \A t, u \in Producers : pc[t] # "idle" /\ pc[u] # "idle" => t = u
  BY ThreadFacts, OneReceiverAssumption DEF DataType, InactiveInv

\* Only a thread of the process starts a call.
LEMMA InactiveStep == ASSUME RecvInv, Next PROVE InactiveInv'
  <1> USE ThreadFacts DEF RecvInv, PcType, DataType, InactiveInv, env
  <1>1. ASSUME NEW t \in NetReceivers, NewStream(t) PROVE InactiveInv'
    BY <1>1 DEF NewStream, Goto, At, Idle
  <1>2. ASSUME NEW t \in NetReceivers, NetRecvCall(t) PROVE InactiveInv'
    BY <1>2 DEF NetRecvCall, Goto, At, Idle
  <1>3. ASSUME NEW t \in NetReceivers, DestroyStream(t) PROVE InactiveInv'
    BY <1>3 DEF DestroyStream, Goto, At, Idle
  <1>4. ASSUME NEW t \in NetReceivers, NetRecvHave(t) PROVE InactiveInv'
    BY <1>4 DEF NetRecvHave, Goto, At, Idle
  <1>5. ASSUME NEW t \in NetReceivers, NetRecvStart(t) PROVE InactiveInv'
    BY <1>5 DEF NetRecvStart, Goto, At, Idle
  <1>6. ASSUME NEW t \in NetReceivers, NetRecvLook(t) PROVE InactiveInv'
    BY <1>6 DEF NetRecvLook, GetIncomingPacket, Goto, At, Idle
  <1>7. ASSUME NEW t \in NetReceivers, NetRecvAdvance(t) PROVE InactiveInv'
    BY <1>7 DEF NetRecvAdvance, Goto, At, Idle
  <1>8. ASSUME NEW t \in NetReceivers, NetRecvDeliver(t) PROVE InactiveInv'
    BY <1>8 DEF NetRecvDeliver, Goto, At, Idle
  <1>9. ASSUME NEW t \in NetReceivers, NetRecvBool(t) PROVE InactiveInv'
    BY <1>9 DEF NetRecvBool, Goto, At, Idle
  <1>10. ASSUME NEW t \in NetReceivers, WaitForLock(t) PROVE InactiveInv'
    BY <1>10 DEF WaitForLock, Acquire, Goto, At, Idle
  <1>11. ASSUME NEW t \in NetReceivers, ScanData(t) PROVE InactiveInv'
    BY <1>11 DEF ScanData, Release, Goto, At, Idle
  <1>12. ASSUME NEW t \in NetReceivers, ShutCheck(t) PROVE InactiveInv'
    BY <1>12 DEF ShutCheck, Release, Goto, At, Idle
  <1>13. ASSUME NEW t \in NetReceivers, ScanClosed(t) PROVE InactiveInv'
    BY <1>13 DEF ScanClosed, Release, Goto, At, Idle
  <1>14. ASSUME NEW t \in NetReceivers, DeleteClosed(t) PROVE InactiveInv'
    BY <1>14 DEF DeleteClosed, EraseStream, Goto, At, Idle
  <1>15. ASSUME NEW t \in NetReceivers, DestroyErase(t) PROVE InactiveInv'
    BY <1>15 DEF DestroyErase, EraseStream, Goto, At, Idle
  <1>16. ASSUME NEW t \in StreamReceivers, StreamRecvCall(t) PROVE InactiveInv'
    BY <1>16 DEF StreamRecvCall, Goto, At, Idle
  <1>17. ASSUME NEW t \in StreamReceivers, StreamRecvGet(t) PROVE InactiveInv'
    BY <1>17 DEF StreamRecvGet, GetIncomingPacket, Goto, At, Idle
  <1>18. ASSUME NEW t \in StreamReceivers, StreamRecvClosed(t) PROVE InactiveInv'
    BY <1>18 DEF StreamRecvClosed, Goto, At, Idle
  <1>19. ASSUME NEW t \in StreamReceivers, BlockForIncomingPacket(t) PROVE InactiveInv'
    BY <1>19 DEF BlockForIncomingPacket, Goto, At, Idle
  <1>20. ASSUME NEW t \in Producers, NewStream(t) PROVE InactiveInv'
    BY <1>20 DEF NewStream, Goto, At, Idle
  <1>21. ASSUME NEW t \in Producers, Lookup(t) PROVE InactiveInv'
    BY <1>21 DEF Lookup, Goto, At, Idle
  <1>22. ASSUME NEW t \in Producers, BackEndDeleteStream(t) PROVE InactiveInv'
    BY <1>22 DEF BackEndDeleteStream, Goto, At, Idle
  <1>23. ASSUME NEW t \in Producers, Push(t) PROVE InactiveInv'
    BY <1>23 DEF Push, Goto, At, Idle
  <1>24. ASSUME NEW t \in Producers, SignalStream(t) PROVE InactiveInv'
    BY <1>24 DEF SignalStream, Signal, Goto, At, Idle
  <1>25. ASSUME NEW t \in Producers, SignalNonEmptyStream(t) PROVE InactiveInv'
    BY <1>25 DEF SignalNonEmptyStream, Signal, Goto, At, Idle
  <1>26. ASSUME EdtRemoveNode PROVE InactiveInv'
    BY <1>26 DEF EdtRemoveNode, CloseLoop, Acquire, Goto, At, Idle
  <1>27. ASSUME NEW t \in Threads \ StreamReceivers, CloseSet(t) PROVE InactiveInv'
    BY <1>27 DEF CloseSet, Goto, At, Idle
  <1>28. ASSUME NEW t \in Threads \ StreamReceivers, CloseSignal(t) PROVE InactiveInv'
    BY <1>28 DEF CloseSignal, Signal, Release, Goto, At, Idle
  <1>29. ASSUME ShutDownSet PROVE InactiveInv'
    BY <1>29 DEF ShutDownSet, Goto, At, Idle
  <1>30. ASSUME ShutDownSignal PROVE InactiveInv'
    BY <1>30 DEF ShutDownSignal, Signal, Goto, At, Idle
  <1>31. ASSUME CloseStreams PROVE InactiveInv'
    BY <1>31 DEF CloseStreams, CloseLoop, Acquire, Goto, At, Idle
  <1> QED
    BY <1>1, <1>2, <1>3, <1>4, <1>5, <1>6, <1>7, <1>8, <1>9, <1>10, <1>11, <1>12, <1>13, <1>14, <1>15, <1>16, <1>17, <1>18, <1>19, <1>20, <1>21, <1>22, <1>23, <1>24, <1>25, <1>26, <1>27, <1>28, <1>29, <1>30, <1>31
       DEF Next, NetRecvStep, WaitForNonEmptyStream, StreamRecvStep, ProducerStep,
           AddIncomingPacket, CloseStep, ShutStep

\* delete_Stream moves the iterator off the entry that goes.
LEMMA EraseKeeps ==
  ASSUME DataType, NEW s, EraseStream(s), streams # {} => streamIter \in streams
  PROVE  streams' # {} => streamIter' \in streams'
  <1>1. streams \ {s} \in SUBSET Streams
    BY DEF DataType
  <1>2. CASE s \in streams /\ s = streamIter
    BY <1>1, <1>2, AfterIsIn DEF EraseStream
  <1>3. CASE ~(s \in streams /\ s = streamIter)
    BY <1>3 DEF EraseStream
  <1> QED BY <1>2, <1>3

\* The iterator follows what is put into and taken out of the map, and nobody empties the map while a thread walks through it.
LEMMA IteratorStep == ASSUME RecvInv, Next PROVE IteratorValid'
  <1> USE ThreadFacts, AfterIsIn, Alone DEF RecvInv, PcType, DataType, IteratorValid, mapVars
  <1>1. ASSUME NEW t \in NetReceivers, NewStream(t) PROVE IteratorValid'
    BY <1>1 DEF NewStream, Goto, At, Idle
  <1>2. ASSUME NEW t \in NetReceivers, NetRecvCall(t) PROVE IteratorValid'
    BY <1>2 DEF NetRecvCall, Goto, At, Idle
  <1>3. ASSUME NEW t \in NetReceivers, DestroyStream(t) PROVE IteratorValid'
    BY <1>3 DEF DestroyStream, Goto, At, Idle
  <1>4. ASSUME NEW t \in NetReceivers, NetRecvHave(t) PROVE IteratorValid'
    BY <1>4 DEF NetRecvHave, Goto, At, Idle
  <1>5. ASSUME NEW t \in NetReceivers, NetRecvStart(t) PROVE IteratorValid'
    BY <1>5 DEF NetRecvStart, Goto, At, Idle
  <1>6. ASSUME NEW t \in NetReceivers, NetRecvLook(t) PROVE IteratorValid'
    BY <1>6 DEF NetRecvLook, GetIncomingPacket, Goto, At, Idle
  <1>7. ASSUME NEW t \in NetReceivers, NetRecvAdvance(t) PROVE IteratorValid'
    BY <1>7 DEF NetRecvAdvance, Goto, At, Idle
  <1>8. ASSUME NEW t \in NetReceivers, NetRecvDeliver(t) PROVE IteratorValid'
    BY <1>8 DEF NetRecvDeliver, Goto, At, Idle
  <1>9. ASSUME NEW t \in NetReceivers, NetRecvBool(t) PROVE IteratorValid'
    BY <1>9 DEF NetRecvBool, Goto, At, Idle
  <1>10. ASSUME NEW t \in NetReceivers, WaitForLock(t) PROVE IteratorValid'
    BY <1>10 DEF WaitForLock, Acquire, Goto, At, Idle
  <1>11. ASSUME NEW t \in NetReceivers, ScanData(t) PROVE IteratorValid'
    BY <1>11 DEF ScanData, Release, Goto, At, Idle
  <1>12. ASSUME NEW t \in NetReceivers, ShutCheck(t) PROVE IteratorValid'
    BY <1>12 DEF ShutCheck, Release, Goto, At, Idle
  <1>13. ASSUME NEW t \in NetReceivers, ScanClosed(t) PROVE IteratorValid'
    BY <1>13 DEF ScanClosed, Release, Goto, At, Idle
  <1>14. ASSUME NEW t \in NetReceivers, DeleteClosed(t) PROVE IteratorValid'
    <2>1. EraseStream(target[t]) /\ pc[t] # "idle" /\ pc' = [pc EXCEPT ![t] = "idle"]
      BY <1>14 DEF DeleteClosed, Goto, At
    <2>2. streams' # {} => streamIter' \in streams'
      BY <2>1, EraseKeeps
    <2>3. \A u \in NetReceivers : pc'[u] = "idle"
      BY <2>1
    <2> QED BY <2>2, <2>3
  <1>15. ASSUME NEW t \in NetReceivers, DestroyErase(t) PROVE IteratorValid'
    <2>1. EraseStream(target[t]) /\ pc[t] # "idle" /\ pc' = [pc EXCEPT ![t] = "idle"]
      BY <1>15 DEF DestroyErase, Goto, At
    <2>2. streams' # {} => streamIter' \in streams'
      BY <2>1, EraseKeeps
    <2>3. \A u \in NetReceivers : pc'[u] = "idle"
      BY <2>1
    <2> QED BY <2>2, <2>3
  <1>16. ASSUME NEW t \in StreamReceivers, StreamRecvCall(t) PROVE IteratorValid'
    BY <1>16 DEF StreamRecvCall, Goto, At, Idle
  <1>17. ASSUME NEW t \in StreamReceivers, StreamRecvGet(t) PROVE IteratorValid'
    BY <1>17 DEF StreamRecvGet, GetIncomingPacket, Goto, At, Idle
  <1>18. ASSUME NEW t \in StreamReceivers, StreamRecvClosed(t) PROVE IteratorValid'
    BY <1>18 DEF StreamRecvClosed, Goto, At, Idle
  <1>19. ASSUME NEW t \in StreamReceivers, BlockForIncomingPacket(t) PROVE IteratorValid'
    BY <1>19 DEF BlockForIncomingPacket, Goto, At, Idle
  <1>20. ASSUME NEW t \in Producers, NewStream(t) PROVE IteratorValid'
    BY <1>20 DEF NewStream, Goto, At, Idle
  <1>21. ASSUME NEW t \in Producers, Lookup(t) PROVE IteratorValid'
    BY <1>21 DEF Lookup, Goto, At, Idle
  <1>22. ASSUME NEW t \in Producers, BackEndDeleteStream(t) PROVE IteratorValid'
    BY <1>22 DEF BackEndDeleteStream, Goto, At, Idle
  <1>23. ASSUME NEW t \in Producers, Push(t) PROVE IteratorValid'
    BY <1>23 DEF Push, Goto, At, Idle
  <1>24. ASSUME NEW t \in Producers, SignalStream(t) PROVE IteratorValid'
    BY <1>24 DEF SignalStream, Signal, Goto, At, Idle
  <1>25. ASSUME NEW t \in Producers, SignalNonEmptyStream(t) PROVE IteratorValid'
    BY <1>25 DEF SignalNonEmptyStream, Signal, Goto, At, Idle
  <1>26. ASSUME EdtRemoveNode PROVE IteratorValid'
    BY <1>26 DEF EdtRemoveNode, CloseLoop, Acquire, Goto, At, Idle
  <1>27. ASSUME NEW t \in Threads \ StreamReceivers, CloseSet(t) PROVE IteratorValid'
    BY <1>27 DEF CloseSet, Goto, At, Idle
  <1>28. ASSUME NEW t \in Threads \ StreamReceivers, CloseSignal(t) PROVE IteratorValid'
    BY <1>28 DEF CloseSignal, Signal, Release, Goto, At, Idle
  <1>29. ASSUME ShutDownSet PROVE IteratorValid'
    BY <1>29 DEF ShutDownSet, Goto, At, Idle
  <1>30. ASSUME ShutDownSignal PROVE IteratorValid'
    BY <1>30 DEF ShutDownSignal, Signal, Goto, At, Idle
  <1>31. ASSUME CloseStreams PROVE IteratorValid'
    BY <1>31 DEF CloseStreams, CloseLoop, Acquire, Goto, At, Idle
  <1> QED
    BY <1>1, <1>2, <1>3, <1>4, <1>5, <1>6, <1>7, <1>8, <1>9, <1>10, <1>11, <1>12, <1>13, <1>14, <1>15, <1>16, <1>17, <1>18, <1>19, <1>20, <1>21, <1>22, <1>23, <1>24, <1>25, <1>26, <1>27, <1>28, <1>29, <1>30, <1>31
       DEF Next, NetRecvStep, WaitForNonEmptyStream, StreamRecvStep, ProducerStep,
           AddIncomingPacket, CloseStep, ShutStep

\* Only the thread that found a stream or a packet takes it away.
LEMMA FoundStep == ASSUME RecvInv, Next PROVE FoundInv'
  <1> USE ThreadFacts, ReadsAssumption, Alone DEF RecvInv, PcType, DataType, FoundInv, IteratorValid, mapVars, strmVars, callVars
  <1>1. ASSUME NEW t \in NetReceivers, NewStream(t) PROVE FoundInv'
    BY <1>1 DEF NewStream, Goto, At, Idle
  <1>2. ASSUME NEW t \in NetReceivers, NetRecvCall(t) PROVE FoundInv'
    BY <1>2 DEF NetRecvCall, Goto, At, Idle
  <1>3. ASSUME NEW t \in NetReceivers, DestroyStream(t) PROVE FoundInv'
    BY <1>3 DEF DestroyStream, Goto, At, Idle
  <1>4. ASSUME NEW t \in NetReceivers, NetRecvHave(t) PROVE FoundInv'
    BY <1>4 DEF NetRecvHave, Goto, At, Idle
  <1>5. ASSUME NEW t \in NetReceivers, NetRecvStart(t) PROVE FoundInv'
    BY <1>5 DEF NetRecvStart, Goto, At, Idle
  <1>6. ASSUME NEW t \in NetReceivers, NetRecvLook(t) PROVE FoundInv'
    BY <1>6 DEF NetRecvLook, GetIncomingPacket, Goto, At, Idle
  <1>7. ASSUME NEW t \in NetReceivers, NetRecvAdvance(t) PROVE FoundInv'
    BY <1>7 DEF NetRecvAdvance, Goto, At, Idle
  <1>8. ASSUME NEW t \in NetReceivers, NetRecvDeliver(t) PROVE FoundInv'
    BY <1>8 DEF NetRecvDeliver, Goto, At, Idle
  <1>9. ASSUME NEW t \in NetReceivers, NetRecvBool(t) PROVE FoundInv'
    BY <1>9 DEF NetRecvBool, Goto, At, Idle
  <1>10. ASSUME NEW t \in NetReceivers, WaitForLock(t) PROVE FoundInv'
    BY <1>10 DEF WaitForLock, Acquire, Goto, At, Idle
  <1>11. ASSUME NEW t \in NetReceivers, ScanData(t) PROVE FoundInv'
    BY <1>11 DEF ScanData, Release, Goto, At, Idle
  <1>12. ASSUME NEW t \in NetReceivers, ShutCheck(t) PROVE FoundInv'
    BY <1>12 DEF ShutCheck, Release, Goto, At, Idle
  <1>13. ASSUME NEW t \in NetReceivers, ScanClosed(t) PROVE FoundInv'
    BY <1>13 DEF ScanClosed, Release, Goto, At, Idle
  <1>14. ASSUME NEW t \in NetReceivers, DeleteClosed(t) PROVE FoundInv'
    BY <1>14 DEF DeleteClosed, EraseStream, Goto, At, Idle
  <1>15. ASSUME NEW t \in NetReceivers, DestroyErase(t) PROVE FoundInv'
    BY <1>15 DEF DestroyErase, EraseStream, Goto, At, Idle
  <1>16. ASSUME NEW t \in StreamReceivers, StreamRecvCall(t) PROVE FoundInv'
    BY <1>16 DEF StreamRecvCall, Goto, At, Idle
  <1>17. ASSUME NEW t \in StreamReceivers, StreamRecvGet(t) PROVE FoundInv'
    BY <1>17 DEF StreamRecvGet, GetIncomingPacket, Goto, At, Idle
  <1>18. ASSUME NEW t \in StreamReceivers, StreamRecvClosed(t) PROVE FoundInv'
    BY <1>18 DEF StreamRecvClosed, Goto, At, Idle
  <1>19. ASSUME NEW t \in StreamReceivers, BlockForIncomingPacket(t) PROVE FoundInv'
    BY <1>19 DEF BlockForIncomingPacket, Goto, At, Idle
  <1>20. ASSUME NEW t \in Producers, NewStream(t) PROVE FoundInv'
    BY <1>20 DEF NewStream, Goto, At, Idle
  <1>21. ASSUME NEW t \in Producers, Lookup(t) PROVE FoundInv'
    BY <1>21 DEF Lookup, Goto, At, Idle
  <1>22. ASSUME NEW t \in Producers, BackEndDeleteStream(t) PROVE FoundInv'
    BY <1>22 DEF BackEndDeleteStream, Goto, At, Idle
  <1>23. ASSUME NEW t \in Producers, Push(t) PROVE FoundInv'
    BY <1>23 DEF Push, Goto, At, Idle
  <1>24. ASSUME NEW t \in Producers, SignalStream(t) PROVE FoundInv'
    BY <1>24 DEF SignalStream, Signal, Goto, At, Idle
  <1>25. ASSUME NEW t \in Producers, SignalNonEmptyStream(t) PROVE FoundInv'
    BY <1>25 DEF SignalNonEmptyStream, Signal, Goto, At, Idle
  <1>26. ASSUME EdtRemoveNode PROVE FoundInv'
    BY <1>26 DEF EdtRemoveNode, CloseLoop, Acquire, Goto, At, Idle
  <1>27. ASSUME NEW t \in Threads \ StreamReceivers, CloseSet(t) PROVE FoundInv'
    BY <1>27 DEF CloseSet, Goto, At, Idle
  <1>28. ASSUME NEW t \in Threads \ StreamReceivers, CloseSignal(t) PROVE FoundInv'
    BY <1>28 DEF CloseSignal, Signal, Release, Goto, At, Idle
  <1>29. ASSUME ShutDownSet PROVE FoundInv'
    BY <1>29 DEF ShutDownSet, Goto, At, Idle
  <1>30. ASSUME ShutDownSignal PROVE FoundInv'
    BY <1>30 DEF ShutDownSignal, Signal, Goto, At, Idle
  <1>31. ASSUME CloseStreams PROVE FoundInv'
    BY <1>31 DEF CloseStreams, CloseLoop, Acquire, Goto, At, Idle
  <1> QED
    BY <1>1, <1>2, <1>3, <1>4, <1>5, <1>6, <1>7, <1>8, <1>9, <1>10, <1>11, <1>12, <1>13, <1>14, <1>15, <1>16, <1>17, <1>18, <1>19, <1>20, <1>21, <1>22, <1>23, <1>24, <1>25, <1>26, <1>27, <1>28, <1>29, <1>30, <1>31
       DEF Next, NetRecvStep, WaitForNonEmptyStream, StreamRecvStep, ProducerStep,
           AddIncomingPacket, CloseStep, ShutStep

\* So the assertions hold.
LEMMA AssertionsStep == ASSUME RecvInv, Next PROVE AssertionsHold'
  <1> USE ThreadFacts, ReadsAssumption DEF RecvInv, PcType, DataType, AssertionsHold, FoundInv
  <1>1. ASSUME NEW t \in NetReceivers, NewStream(t) PROVE AssertionsHold'
    BY <1>1 DEF NewStream, Goto, At, Idle
  <1>2. ASSUME NEW t \in NetReceivers, NetRecvCall(t) PROVE AssertionsHold'
    BY <1>2 DEF NetRecvCall, Goto, At, Idle
  <1>3. ASSUME NEW t \in NetReceivers, DestroyStream(t) PROVE AssertionsHold'
    BY <1>3 DEF DestroyStream, Goto, At, Idle
  <1>4. ASSUME NEW t \in NetReceivers, NetRecvHave(t) PROVE AssertionsHold'
    BY <1>4 DEF NetRecvHave, Goto, At, Idle
  <1>5. ASSUME NEW t \in NetReceivers, NetRecvStart(t) PROVE AssertionsHold'
    BY <1>5 DEF NetRecvStart, Goto, At, Idle
  <1>6. ASSUME NEW t \in NetReceivers, NetRecvLook(t) PROVE AssertionsHold'
    BY <1>6 DEF NetRecvLook, GetIncomingPacket, Goto, At, Idle
  <1>7. ASSUME NEW t \in NetReceivers, NetRecvAdvance(t) PROVE AssertionsHold'
    BY <1>7 DEF NetRecvAdvance, Goto, At, Idle
  <1>8. ASSUME NEW t \in NetReceivers, NetRecvDeliver(t) PROVE AssertionsHold'
    BY <1>8 DEF NetRecvDeliver, Goto, At, Idle
  <1>9. ASSUME NEW t \in NetReceivers, NetRecvBool(t) PROVE AssertionsHold'
    BY <1>9 DEF NetRecvBool, Goto, At, Idle
  <1>10. ASSUME NEW t \in NetReceivers, WaitForLock(t) PROVE AssertionsHold'
    BY <1>10 DEF WaitForLock, Acquire, Goto, At, Idle
  <1>11. ASSUME NEW t \in NetReceivers, ScanData(t) PROVE AssertionsHold'
    BY <1>11 DEF ScanData, Release, Goto, At, Idle
  <1>12. ASSUME NEW t \in NetReceivers, ShutCheck(t) PROVE AssertionsHold'
    BY <1>12 DEF ShutCheck, Release, Goto, At, Idle
  <1>13. ASSUME NEW t \in NetReceivers, ScanClosed(t) PROVE AssertionsHold'
    BY <1>13 DEF ScanClosed, Release, Goto, At, Idle
  <1>14. ASSUME NEW t \in NetReceivers, DeleteClosed(t) PROVE AssertionsHold'
    BY <1>14 DEF DeleteClosed, EraseStream, Goto, At, Idle
  <1>15. ASSUME NEW t \in NetReceivers, DestroyErase(t) PROVE AssertionsHold'
    BY <1>15 DEF DestroyErase, EraseStream, Goto, At, Idle
  <1>16. ASSUME NEW t \in StreamReceivers, StreamRecvCall(t) PROVE AssertionsHold'
    BY <1>16 DEF StreamRecvCall, Goto, At, Idle
  <1>17. ASSUME NEW t \in StreamReceivers, StreamRecvGet(t) PROVE AssertionsHold'
    BY <1>17 DEF StreamRecvGet, GetIncomingPacket, Goto, At, Idle
  <1>18. ASSUME NEW t \in StreamReceivers, StreamRecvClosed(t) PROVE AssertionsHold'
    BY <1>18 DEF StreamRecvClosed, Goto, At, Idle
  <1>19. ASSUME NEW t \in StreamReceivers, BlockForIncomingPacket(t) PROVE AssertionsHold'
    BY <1>19 DEF BlockForIncomingPacket, Goto, At, Idle
  <1>20. ASSUME NEW t \in Producers, NewStream(t) PROVE AssertionsHold'
    BY <1>20 DEF NewStream, Goto, At, Idle
  <1>21. ASSUME NEW t \in Producers, Lookup(t) PROVE AssertionsHold'
    BY <1>21 DEF Lookup, Goto, At, Idle
  <1>22. ASSUME NEW t \in Producers, BackEndDeleteStream(t) PROVE AssertionsHold'
    BY <1>22 DEF BackEndDeleteStream, Goto, At, Idle
  <1>23. ASSUME NEW t \in Producers, Push(t) PROVE AssertionsHold'
    BY <1>23 DEF Push, Goto, At, Idle
  <1>24. ASSUME NEW t \in Producers, SignalStream(t) PROVE AssertionsHold'
    BY <1>24 DEF SignalStream, Signal, Goto, At, Idle
  <1>25. ASSUME NEW t \in Producers, SignalNonEmptyStream(t) PROVE AssertionsHold'
    BY <1>25 DEF SignalNonEmptyStream, Signal, Goto, At, Idle
  <1>26. ASSUME EdtRemoveNode PROVE AssertionsHold'
    BY <1>26 DEF EdtRemoveNode, CloseLoop, Acquire, Goto, At, Idle
  <1>27. ASSUME NEW t \in Threads \ StreamReceivers, CloseSet(t) PROVE AssertionsHold'
    BY <1>27 DEF CloseSet, Goto, At, Idle
  <1>28. ASSUME NEW t \in Threads \ StreamReceivers, CloseSignal(t) PROVE AssertionsHold'
    BY <1>28 DEF CloseSignal, Signal, Release, Goto, At, Idle
  <1>29. ASSUME ShutDownSet PROVE AssertionsHold'
    BY <1>29 DEF ShutDownSet, Goto, At, Idle
  <1>30. ASSUME ShutDownSignal PROVE AssertionsHold'
    BY <1>30 DEF ShutDownSignal, Signal, Goto, At, Idle
  <1>31. ASSUME CloseStreams PROVE AssertionsHold'
    BY <1>31 DEF CloseStreams, CloseLoop, Acquire, Goto, At, Idle
  <1> QED
    BY <1>1, <1>2, <1>3, <1>4, <1>5, <1>6, <1>7, <1>8, <1>9, <1>10, <1>11, <1>12, <1>13, <1>14, <1>15, <1>16, <1>17, <1>18, <1>19, <1>20, <1>21, <1>22, <1>23, <1>24, <1>25, <1>26, <1>27, <1>28, <1>29, <1>30, <1>31
       DEF Next, NetRecvStep, WaitForNonEmptyStream, StreamRecvStep, ProducerStep,
           AddIncomingPacket, CloseStep, ShutStep

\* _streams_sync stays with the thread that looks or closes.
LEMMA LockStep == ASSUME RecvInv, Next PROVE LockInv'
  <1> USE ThreadFacts, MinIsIn DEF RecvInv, PcType, DataType, LockInv, mapVars, callVars, Acquire, Release, LockFree
  <1>1. ASSUME NEW t \in NetReceivers, NewStream(t) PROVE LockInv'
    BY <1>1 DEF NewStream, Goto, At, Idle
  <1>2. ASSUME NEW t \in NetReceivers, NetRecvCall(t) PROVE LockInv'
    BY <1>2 DEF NetRecvCall, Goto, At, Idle
  <1>3. ASSUME NEW t \in NetReceivers, DestroyStream(t) PROVE LockInv'
    BY <1>3 DEF DestroyStream, Goto, At, Idle
  <1>4. ASSUME NEW t \in NetReceivers, NetRecvHave(t) PROVE LockInv'
    BY <1>4 DEF NetRecvHave, Goto, At, Idle
  <1>5. ASSUME NEW t \in NetReceivers, NetRecvStart(t) PROVE LockInv'
    BY <1>5 DEF NetRecvStart, Goto, At, Idle
  <1>6. ASSUME NEW t \in NetReceivers, NetRecvLook(t) PROVE LockInv'
    BY <1>6 DEF NetRecvLook, GetIncomingPacket, Goto, At, Idle
  <1>7. ASSUME NEW t \in NetReceivers, NetRecvAdvance(t) PROVE LockInv'
    BY <1>7 DEF NetRecvAdvance, Goto, At, Idle
  <1>8. ASSUME NEW t \in NetReceivers, NetRecvDeliver(t) PROVE LockInv'
    BY <1>8 DEF NetRecvDeliver, Goto, At, Idle
  <1>9. ASSUME NEW t \in NetReceivers, NetRecvBool(t) PROVE LockInv'
    BY <1>9 DEF NetRecvBool, Goto, At, Idle
  <1>10. ASSUME NEW t \in NetReceivers, WaitForLock(t) PROVE LockInv'
    BY <1>10 DEF WaitForLock, Acquire, Goto, At, Idle
  <1>11. ASSUME NEW t \in NetReceivers, ScanData(t) PROVE LockInv'
    BY <1>11 DEF ScanData, Release, Goto, At, Idle
  <1>12. ASSUME NEW t \in NetReceivers, ShutCheck(t) PROVE LockInv'
    BY <1>12 DEF ShutCheck, Release, Goto, At, Idle
  <1>13. ASSUME NEW t \in NetReceivers, ScanClosed(t) PROVE LockInv'
    BY <1>13 DEF ScanClosed, Release, Goto, At, Idle
  <1>14. ASSUME NEW t \in NetReceivers, DeleteClosed(t) PROVE LockInv'
    BY <1>14 DEF DeleteClosed, EraseStream, Goto, At, Idle
  <1>15. ASSUME NEW t \in NetReceivers, DestroyErase(t) PROVE LockInv'
    BY <1>15 DEF DestroyErase, EraseStream, Goto, At, Idle
  <1>16. ASSUME NEW t \in StreamReceivers, StreamRecvCall(t) PROVE LockInv'
    BY <1>16 DEF StreamRecvCall, Goto, At, Idle
  <1>17. ASSUME NEW t \in StreamReceivers, StreamRecvGet(t) PROVE LockInv'
    BY <1>17 DEF StreamRecvGet, GetIncomingPacket, Goto, At, Idle
  <1>18. ASSUME NEW t \in StreamReceivers, StreamRecvClosed(t) PROVE LockInv'
    BY <1>18 DEF StreamRecvClosed, Goto, At, Idle
  <1>19. ASSUME NEW t \in StreamReceivers, BlockForIncomingPacket(t) PROVE LockInv'
    BY <1>19 DEF BlockForIncomingPacket, Goto, At, Idle
  <1>20. ASSUME NEW t \in Producers, NewStream(t) PROVE LockInv'
    BY <1>20 DEF NewStream, Goto, At, Idle
  <1>21. ASSUME NEW t \in Producers, Lookup(t) PROVE LockInv'
    BY <1>21 DEF Lookup, Goto, At, Idle
  <1>22. ASSUME NEW t \in Producers, BackEndDeleteStream(t) PROVE LockInv'
    BY <1>22 DEF BackEndDeleteStream, Goto, At, Idle
  <1>23. ASSUME NEW t \in Producers, Push(t) PROVE LockInv'
    BY <1>23 DEF Push, Goto, At, Idle
  <1>24. ASSUME NEW t \in Producers, SignalStream(t) PROVE LockInv'
    BY <1>24 DEF SignalStream, Signal, Goto, At, Idle
  <1>25. ASSUME NEW t \in Producers, SignalNonEmptyStream(t) PROVE LockInv'
    BY <1>25 DEF SignalNonEmptyStream, Signal, Goto, At, Idle
  <1>26. ASSUME EdtRemoveNode PROVE LockInv'
    BY <1>26 DEF EdtRemoveNode, CloseLoop, Acquire, Goto, At, Idle
  <1>27. ASSUME NEW t \in Threads \ StreamReceivers, CloseSet(t) PROVE LockInv'
    BY <1>27 DEF CloseSet, Goto, At, Idle
  <1>28. ASSUME NEW t \in Threads \ StreamReceivers, CloseSignal(t) PROVE LockInv'
    BY <1>28 DEF CloseSignal, Signal, Release, Goto, At, Idle
  <1>29. ASSUME ShutDownSet PROVE LockInv'
    BY <1>29 DEF ShutDownSet, Goto, At, Idle
  <1>30. ASSUME ShutDownSignal PROVE LockInv'
    BY <1>30 DEF ShutDownSignal, Signal, Goto, At, Idle
  <1>31. ASSUME CloseStreams PROVE LockInv'
    BY <1>31 DEF CloseStreams, CloseLoop, Acquire, Goto, At, Idle
  <1> QED
    BY <1>1, <1>2, <1>3, <1>4, <1>5, <1>6, <1>7, <1>8, <1>9, <1>10, <1>11, <1>12, <1>13, <1>14, <1>15, <1>16, <1>17, <1>18, <1>19, <1>20, <1>21, <1>22, <1>23, <1>24, <1>25, <1>26, <1>27, <1>28, <1>29, <1>30, <1>31
       DEF Next, NetRecvStep, WaitForNonEmptyStream, StreamRecvStep, ProducerStep,
           AddIncomingPacket, CloseStep, ShutStep

\* A receive thread has one stream to close.
LEMMA CloserStep == ASSUME RecvInv, Next PROVE CloserInv'
  <1> USE ThreadFacts DEF RecvInv, PcType, DataType, CloserInv, mapVars, callVars, env
  <1>1. ASSUME NEW t \in NetReceivers, NewStream(t) PROVE CloserInv'
    BY <1>1 DEF NewStream, Goto, At, Idle, IsFrontEnd
  <1>2. ASSUME NEW t \in NetReceivers, NetRecvCall(t) PROVE CloserInv'
    BY <1>2 DEF NetRecvCall, Goto, At, Idle, IsFrontEnd
  <1>3. ASSUME NEW t \in NetReceivers, DestroyStream(t) PROVE CloserInv'
    BY <1>3 DEF DestroyStream, Goto, At, Idle, IsFrontEnd
  <1>4. ASSUME NEW t \in NetReceivers, NetRecvHave(t) PROVE CloserInv'
    BY <1>4 DEF NetRecvHave, Goto, At, Idle, IsFrontEnd
  <1>5. ASSUME NEW t \in NetReceivers, NetRecvStart(t) PROVE CloserInv'
    BY <1>5 DEF NetRecvStart, Goto, At, Idle, IsFrontEnd
  <1>6. ASSUME NEW t \in NetReceivers, NetRecvLook(t) PROVE CloserInv'
    BY <1>6 DEF NetRecvLook, GetIncomingPacket, Goto, At, Idle, IsFrontEnd
  <1>7. ASSUME NEW t \in NetReceivers, NetRecvAdvance(t) PROVE CloserInv'
    BY <1>7 DEF NetRecvAdvance, Goto, At, Idle, IsFrontEnd
  <1>8. ASSUME NEW t \in NetReceivers, NetRecvDeliver(t) PROVE CloserInv'
    BY <1>8 DEF NetRecvDeliver, Goto, At, Idle, IsFrontEnd
  <1>9. ASSUME NEW t \in NetReceivers, NetRecvBool(t) PROVE CloserInv'
    BY <1>9 DEF NetRecvBool, Goto, At, Idle, IsFrontEnd
  <1>10. ASSUME NEW t \in NetReceivers, WaitForLock(t) PROVE CloserInv'
    BY <1>10 DEF WaitForLock, Acquire, Goto, At, Idle, IsFrontEnd
  <1>11. ASSUME NEW t \in NetReceivers, ScanData(t) PROVE CloserInv'
    BY <1>11 DEF ScanData, Release, Goto, At, Idle, IsFrontEnd
  <1>12. ASSUME NEW t \in NetReceivers, ShutCheck(t) PROVE CloserInv'
    BY <1>12 DEF ShutCheck, Release, Goto, At, Idle, IsFrontEnd
  <1>13. ASSUME NEW t \in NetReceivers, ScanClosed(t) PROVE CloserInv'
    BY <1>13 DEF ScanClosed, Release, Goto, At, Idle, IsFrontEnd
  <1>14. ASSUME NEW t \in NetReceivers, DeleteClosed(t) PROVE CloserInv'
    BY <1>14 DEF DeleteClosed, EraseStream, Goto, At, Idle, IsFrontEnd
  <1>15. ASSUME NEW t \in NetReceivers, DestroyErase(t) PROVE CloserInv'
    BY <1>15 DEF DestroyErase, EraseStream, Goto, At, Idle, IsFrontEnd
  <1>16. ASSUME NEW t \in StreamReceivers, StreamRecvCall(t) PROVE CloserInv'
    BY <1>16 DEF StreamRecvCall, Goto, At, Idle, IsFrontEnd
  <1>17. ASSUME NEW t \in StreamReceivers, StreamRecvGet(t) PROVE CloserInv'
    BY <1>17 DEF StreamRecvGet, GetIncomingPacket, Goto, At, Idle, IsFrontEnd
  <1>18. ASSUME NEW t \in StreamReceivers, StreamRecvClosed(t) PROVE CloserInv'
    BY <1>18 DEF StreamRecvClosed, Goto, At, Idle, IsFrontEnd
  <1>19. ASSUME NEW t \in StreamReceivers, BlockForIncomingPacket(t) PROVE CloserInv'
    BY <1>19 DEF BlockForIncomingPacket, Goto, At, Idle, IsFrontEnd
  <1>20. ASSUME NEW t \in Producers, NewStream(t) PROVE CloserInv'
    BY <1>20 DEF NewStream, Goto, At, Idle, IsFrontEnd
  <1>21. ASSUME NEW t \in Producers, Lookup(t) PROVE CloserInv'
    BY <1>21 DEF Lookup, Goto, At, Idle, IsFrontEnd
  <1>22. ASSUME NEW t \in Producers, BackEndDeleteStream(t) PROVE CloserInv'
    BY <1>22 DEF BackEndDeleteStream, Goto, At, Idle, IsFrontEnd
  <1>23. ASSUME NEW t \in Producers, Push(t) PROVE CloserInv'
    BY <1>23 DEF Push, Goto, At, Idle, IsFrontEnd
  <1>24. ASSUME NEW t \in Producers, SignalStream(t) PROVE CloserInv'
    BY <1>24 DEF SignalStream, Signal, Goto, At, Idle, IsFrontEnd
  <1>25. ASSUME NEW t \in Producers, SignalNonEmptyStream(t) PROVE CloserInv'
    BY <1>25 DEF SignalNonEmptyStream, Signal, Goto, At, Idle, IsFrontEnd
  <1>26. ASSUME EdtRemoveNode PROVE CloserInv'
    BY <1>26 DEF EdtRemoveNode, CloseLoop, Acquire, Goto, At, Idle, IsFrontEnd
  <1>27. ASSUME NEW t \in Threads \ StreamReceivers, CloseSet(t) PROVE CloserInv'
    BY <1>27 DEF CloseSet, Goto, At, Idle, IsFrontEnd
  <1>28. ASSUME NEW t \in Threads \ StreamReceivers, CloseSignal(t) PROVE CloserInv'
    BY <1>28 DEF CloseSignal, Signal, Release, Goto, At, Idle, IsFrontEnd
  <1>29. ASSUME ShutDownSet PROVE CloserInv'
    BY <1>29 DEF ShutDownSet, Goto, At, Idle, IsFrontEnd
  <1>30. ASSUME ShutDownSignal PROVE CloserInv'
    BY <1>30 DEF ShutDownSignal, Signal, Goto, At, Idle, IsFrontEnd
  <1>31. ASSUME CloseStreams PROVE CloserInv'
    BY <1>31 DEF CloseStreams, CloseLoop, Acquire, Goto, At, Idle, IsFrontEnd
  <1> QED
    BY <1>1, <1>2, <1>3, <1>4, <1>5, <1>6, <1>7, <1>8, <1>9, <1>10, <1>11, <1>12, <1>13, <1>14, <1>15, <1>16, <1>17, <1>18, <1>19, <1>20, <1>21, <1>22, <1>23, <1>24, <1>25, <1>26, <1>27, <1>28, <1>29, <1>30, <1>31
       DEF Next, NetRecvStep, WaitForNonEmptyStream, StreamRecvStep, ProducerStep,
           AddIncomingPacket, CloseStep, ShutStep

\* A packet that is owed leaves the buffer and the account together.
LEMMA OwedStep == ASSUME RecvInv, Next PROVE OwedInv'
  <1> USE ThreadFacts, ReadsAssumption, MaxBufferAssumption DEF RecvInv, PcType, DataType, OwedInv, strmVars
  <1>1. ASSUME NEW t \in NetReceivers, NewStream(t) PROVE OwedInv'
    BY <1>1 DEF NewStream, Goto, At, Idle
  <1>2. ASSUME NEW t \in NetReceivers, NetRecvCall(t) PROVE OwedInv'
    BY <1>2 DEF NetRecvCall, Goto, At, Idle
  <1>3. ASSUME NEW t \in NetReceivers, DestroyStream(t) PROVE OwedInv'
    BY <1>3 DEF DestroyStream, Goto, At, Idle
  <1>4. ASSUME NEW t \in NetReceivers, NetRecvHave(t) PROVE OwedInv'
    BY <1>4 DEF NetRecvHave, Goto, At, Idle
  <1>5. ASSUME NEW t \in NetReceivers, NetRecvStart(t) PROVE OwedInv'
    BY <1>5 DEF NetRecvStart, Goto, At, Idle
  <1>6. ASSUME NEW t \in NetReceivers, NetRecvLook(t) PROVE OwedInv'
    BY <1>6 DEF NetRecvLook, GetIncomingPacket, Goto, At, Idle
  <1>7. ASSUME NEW t \in NetReceivers, NetRecvAdvance(t) PROVE OwedInv'
    BY <1>7 DEF NetRecvAdvance, Goto, At, Idle
  <1>8. ASSUME NEW t \in NetReceivers, NetRecvDeliver(t) PROVE OwedInv'
    BY <1>8 DEF NetRecvDeliver, Goto, At, Idle
  <1>9. ASSUME NEW t \in NetReceivers, NetRecvBool(t) PROVE OwedInv'
    BY <1>9 DEF NetRecvBool, Goto, At, Idle
  <1>10. ASSUME NEW t \in NetReceivers, WaitForLock(t) PROVE OwedInv'
    BY <1>10 DEF WaitForLock, Acquire, Goto, At, Idle
  <1>11. ASSUME NEW t \in NetReceivers, ScanData(t) PROVE OwedInv'
    BY <1>11 DEF ScanData, Release, Goto, At, Idle
  <1>12. ASSUME NEW t \in NetReceivers, ShutCheck(t) PROVE OwedInv'
    BY <1>12 DEF ShutCheck, Release, Goto, At, Idle
  <1>13. ASSUME NEW t \in NetReceivers, ScanClosed(t) PROVE OwedInv'
    BY <1>13 DEF ScanClosed, Release, Goto, At, Idle
  <1>14. ASSUME NEW t \in NetReceivers, DeleteClosed(t) PROVE OwedInv'
    BY <1>14 DEF DeleteClosed, EraseStream, Goto, At, Idle
  <1>15. ASSUME NEW t \in NetReceivers, DestroyErase(t) PROVE OwedInv'
    BY <1>15 DEF DestroyErase, EraseStream, Goto, At, Idle
  <1>16. ASSUME NEW t \in StreamReceivers, StreamRecvCall(t) PROVE OwedInv'
    BY <1>16 DEF StreamRecvCall, Goto, At, Idle
  <1>17. ASSUME NEW t \in StreamReceivers, StreamRecvGet(t) PROVE OwedInv'
    BY <1>17 DEF StreamRecvGet, GetIncomingPacket, Goto, At, Idle
  <1>18. ASSUME NEW t \in StreamReceivers, StreamRecvClosed(t) PROVE OwedInv'
    BY <1>18 DEF StreamRecvClosed, Goto, At, Idle
  <1>19. ASSUME NEW t \in StreamReceivers, BlockForIncomingPacket(t) PROVE OwedInv'
    BY <1>19 DEF BlockForIncomingPacket, Goto, At, Idle
  <1>20. ASSUME NEW t \in Producers, NewStream(t) PROVE OwedInv'
    BY <1>20 DEF NewStream, Goto, At, Idle
  <1>21. ASSUME NEW t \in Producers, Lookup(t) PROVE OwedInv'
    BY <1>21 DEF Lookup, Goto, At, Idle
  <1>22. ASSUME NEW t \in Producers, BackEndDeleteStream(t) PROVE OwedInv'
    BY <1>22 DEF BackEndDeleteStream, Goto, At, Idle
  <1>23. ASSUME NEW t \in Producers, Push(t) PROVE OwedInv'
    BY <1>23 DEF Push, Goto, At, Idle
  <1>24. ASSUME NEW t \in Producers, SignalStream(t) PROVE OwedInv'
    BY <1>24 DEF SignalStream, Signal, Goto, At, Idle
  <1>25. ASSUME NEW t \in Producers, SignalNonEmptyStream(t) PROVE OwedInv'
    BY <1>25 DEF SignalNonEmptyStream, Signal, Goto, At, Idle
  <1>26. ASSUME EdtRemoveNode PROVE OwedInv'
    BY <1>26 DEF EdtRemoveNode, CloseLoop, Acquire, Goto, At, Idle
  <1>27. ASSUME NEW t \in Threads \ StreamReceivers, CloseSet(t) PROVE OwedInv'
    BY <1>27 DEF CloseSet, Goto, At, Idle
  <1>28. ASSUME NEW t \in Threads \ StreamReceivers, CloseSignal(t) PROVE OwedInv'
    BY <1>28 DEF CloseSignal, Signal, Release, Goto, At, Idle
  <1>29. ASSUME ShutDownSet PROVE OwedInv'
    BY <1>29 DEF ShutDownSet, Goto, At, Idle
  <1>30. ASSUME ShutDownSignal PROVE OwedInv'
    BY <1>30 DEF ShutDownSignal, Signal, Goto, At, Idle
  <1>31. ASSUME CloseStreams PROVE OwedInv'
    BY <1>31 DEF CloseStreams, CloseLoop, Acquire, Goto, At, Idle
  <1> QED
    BY <1>1, <1>2, <1>3, <1>4, <1>5, <1>6, <1>7, <1>8, <1>9, <1>10, <1>11, <1>12, <1>13, <1>14, <1>15, <1>16, <1>17, <1>18, <1>19, <1>20, <1>21, <1>22, <1>23, <1>24, <1>25, <1>26, <1>27, <1>28, <1>29, <1>30, <1>31
       DEF Next, NetRecvStep, WaitForNonEmptyStream, StreamRecvStep, ProducerStep,
           AddIncomingPacket, CloseStep, ShutStep

\* A stream closed twice owes nothing new.
LEMMA DeleteStep == ASSUME RecvInv, Next PROVE DeleteInv'
  <1> USE ThreadFacts, ReadsAssumption, MinIsIn, Alone DEF RecvInv, PcType, DataType, DeleteInv, LookInv, LockInv, Settled, strmVars, callVars
  <1>1. ASSUME NEW t \in NetReceivers, NewStream(t) PROVE DeleteInv'
    BY <1>1 DEF NewStream, Goto, At, Idle
  <1>2. ASSUME NEW t \in NetReceivers, NetRecvCall(t) PROVE DeleteInv'
    BY <1>2 DEF NetRecvCall, Goto, At, Idle
  <1>3. ASSUME NEW t \in NetReceivers, DestroyStream(t) PROVE DeleteInv'
    BY <1>3 DEF DestroyStream, Goto, At, Idle
  <1>4. ASSUME NEW t \in NetReceivers, NetRecvHave(t) PROVE DeleteInv'
    BY <1>4 DEF NetRecvHave, Goto, At, Idle
  <1>5. ASSUME NEW t \in NetReceivers, NetRecvStart(t) PROVE DeleteInv'
    BY <1>5 DEF NetRecvStart, Goto, At, Idle
  <1>6. ASSUME NEW t \in NetReceivers, NetRecvLook(t) PROVE DeleteInv'
    BY <1>6 DEF NetRecvLook, GetIncomingPacket, Goto, At, Idle
  <1>7. ASSUME NEW t \in NetReceivers, NetRecvAdvance(t) PROVE DeleteInv'
    BY <1>7 DEF NetRecvAdvance, Goto, At, Idle
  <1>8. ASSUME NEW t \in NetReceivers, NetRecvDeliver(t) PROVE DeleteInv'
    BY <1>8 DEF NetRecvDeliver, Goto, At, Idle
  <1>9. ASSUME NEW t \in NetReceivers, NetRecvBool(t) PROVE DeleteInv'
    BY <1>9 DEF NetRecvBool, Goto, At, Idle
  <1>10. ASSUME NEW t \in NetReceivers, WaitForLock(t) PROVE DeleteInv'
    BY <1>10 DEF WaitForLock, Acquire, Goto, At, Idle
  <1>11. ASSUME NEW t \in NetReceivers, ScanData(t) PROVE DeleteInv'
    BY <1>11 DEF ScanData, Release, Goto, At, Idle
  <1>12. ASSUME NEW t \in NetReceivers, ShutCheck(t) PROVE DeleteInv'
    BY <1>12 DEF ShutCheck, Release, Goto, At, Idle
  <1>13. ASSUME NEW t \in NetReceivers, ScanClosed(t) PROVE DeleteInv'
    BY <1>13 DEF ScanClosed, Release, Goto, At, Idle
  <1>14. ASSUME NEW t \in NetReceivers, DeleteClosed(t) PROVE DeleteInv'
    BY <1>14 DEF DeleteClosed, EraseStream, Goto, At, Idle
  <1>15. ASSUME NEW t \in NetReceivers, DestroyErase(t) PROVE DeleteInv'
    BY <1>15 DEF DestroyErase, EraseStream, Goto, At, Idle
  <1>16. ASSUME NEW t \in StreamReceivers, StreamRecvCall(t) PROVE DeleteInv'
    BY <1>16 DEF StreamRecvCall, Goto, At, Idle
  <1>17. ASSUME NEW t \in StreamReceivers, StreamRecvGet(t) PROVE DeleteInv'
    BY <1>17 DEF StreamRecvGet, GetIncomingPacket, Goto, At, Idle
  <1>18. ASSUME NEW t \in StreamReceivers, StreamRecvClosed(t) PROVE DeleteInv'
    BY <1>18 DEF StreamRecvClosed, Goto, At, Idle
  <1>19. ASSUME NEW t \in StreamReceivers, BlockForIncomingPacket(t) PROVE DeleteInv'
    BY <1>19 DEF BlockForIncomingPacket, Goto, At, Idle
  <1>20. ASSUME NEW t \in Producers, NewStream(t) PROVE DeleteInv'
    BY <1>20 DEF NewStream, Goto, At, Idle
  <1>21. ASSUME NEW t \in Producers, Lookup(t) PROVE DeleteInv'
    BY <1>21 DEF Lookup, Goto, At, Idle
  <1>22. ASSUME NEW t \in Producers, BackEndDeleteStream(t) PROVE DeleteInv'
    BY <1>22 DEF BackEndDeleteStream, Goto, At, Idle
  <1>23. ASSUME NEW t \in Producers, Push(t) PROVE DeleteInv'
    BY <1>23 DEF Push, Goto, At, Idle
  <1>24. ASSUME NEW t \in Producers, SignalStream(t) PROVE DeleteInv'
    BY <1>24 DEF SignalStream, Signal, Goto, At, Idle
  <1>25. ASSUME NEW t \in Producers, SignalNonEmptyStream(t) PROVE DeleteInv'
    BY <1>25 DEF SignalNonEmptyStream, Signal, Goto, At, Idle
  <1>26. ASSUME EdtRemoveNode PROVE DeleteInv'
    BY <1>26 DEF EdtRemoveNode, CloseLoop, Acquire, Goto, At, Idle
  <1>27. ASSUME NEW t \in Threads \ StreamReceivers, CloseSet(t) PROVE DeleteInv'
    BY <1>27 DEF CloseSet, Goto, At, Idle
  <1>28. ASSUME NEW t \in Threads \ StreamReceivers, CloseSignal(t) PROVE DeleteInv'
    BY <1>28 DEF CloseSignal, Signal, Release, Goto, At, Idle
  <1>29. ASSUME ShutDownSet PROVE DeleteInv'
    BY <1>29 DEF ShutDownSet, Goto, At, Idle
  <1>30. ASSUME ShutDownSignal PROVE DeleteInv'
    BY <1>30 DEF ShutDownSignal, Signal, Goto, At, Idle
  <1>31. ASSUME CloseStreams PROVE DeleteInv'
    BY <1>31 DEF CloseStreams, CloseLoop, Acquire, Goto, At, Idle
  <1> QED
    BY <1>1, <1>2, <1>3, <1>4, <1>5, <1>6, <1>7, <1>8, <1>9, <1>10, <1>11, <1>12, <1>13, <1>14, <1>15, <1>16, <1>17, <1>18, <1>19, <1>20, <1>21, <1>22, <1>23, <1>24, <1>25, <1>26, <1>27, <1>28, <1>29, <1>30, <1>31
       DEF Next, NetRecvStep, WaitForNonEmptyStream, StreamRecvStep, ProducerStep,
           AddIncomingPacket, CloseStep, ShutStep

\* Nothing happens to the streams that were found empty while _streams_sync is held.
LEMMA LookStep == ASSUME RecvInv, Next PROVE LookInv'
  <1> USE ThreadFacts, ReadsAssumption, MinIsIn, Alone DEF RecvInv, PcType, DataType, LookInv, LockInv, OwedInv, CloserInv, Settled, strmVars, callVars, mapVars, LockFree
  <1>1. ASSUME NEW t \in NetReceivers, NewStream(t) PROVE LookInv'
    BY <1>1 DEF NewStream, Goto, At, Idle
  <1>2. ASSUME NEW t \in NetReceivers, NetRecvCall(t) PROVE LookInv'
    BY <1>2 DEF NetRecvCall, Goto, At, Idle
  <1>3. ASSUME NEW t \in NetReceivers, DestroyStream(t) PROVE LookInv'
    BY <1>3 DEF DestroyStream, Goto, At, Idle
  <1>4. ASSUME NEW t \in NetReceivers, NetRecvHave(t) PROVE LookInv'
    BY <1>4 DEF NetRecvHave, Goto, At, Idle
  <1>5. ASSUME NEW t \in NetReceivers, NetRecvStart(t) PROVE LookInv'
    BY <1>5 DEF NetRecvStart, Goto, At, Idle
  <1>6. ASSUME NEW t \in NetReceivers, NetRecvLook(t) PROVE LookInv'
    BY <1>6 DEF NetRecvLook, GetIncomingPacket, Goto, At, Idle
  <1>7. ASSUME NEW t \in NetReceivers, NetRecvAdvance(t) PROVE LookInv'
    BY <1>7 DEF NetRecvAdvance, Goto, At, Idle
  <1>8. ASSUME NEW t \in NetReceivers, NetRecvDeliver(t) PROVE LookInv'
    BY <1>8 DEF NetRecvDeliver, Goto, At, Idle
  <1>9. ASSUME NEW t \in NetReceivers, NetRecvBool(t) PROVE LookInv'
    BY <1>9 DEF NetRecvBool, Goto, At, Idle
  <1>10. ASSUME NEW t \in NetReceivers, WaitForLock(t) PROVE LookInv'
    BY <1>10 DEF WaitForLock, Acquire, Goto, At, Idle
  <1>11. ASSUME NEW t \in NetReceivers, ScanData(t) PROVE LookInv'
    BY <1>11 DEF ScanData, Release, Goto, At, Idle
  <1>12. ASSUME NEW t \in NetReceivers, ShutCheck(t) PROVE LookInv'
    BY <1>12 DEF ShutCheck, Release, Goto, At, Idle
  <1>13. ASSUME NEW t \in NetReceivers, ScanClosed(t) PROVE LookInv'
    BY <1>13 DEF ScanClosed, Release, Goto, At, Idle
  <1>14. ASSUME NEW t \in NetReceivers, DeleteClosed(t) PROVE LookInv'
    BY <1>14 DEF DeleteClosed, EraseStream, Goto, At, Idle
  <1>15. ASSUME NEW t \in NetReceivers, DestroyErase(t) PROVE LookInv'
    BY <1>15 DEF DestroyErase, EraseStream, Goto, At, Idle
  <1>16. ASSUME NEW t \in StreamReceivers, StreamRecvCall(t) PROVE LookInv'
    BY <1>16 DEF StreamRecvCall, Goto, At, Idle
  <1>17. ASSUME NEW t \in StreamReceivers, StreamRecvGet(t) PROVE LookInv'
    BY <1>17 DEF StreamRecvGet, GetIncomingPacket, Goto, At, Idle
  <1>18. ASSUME NEW t \in StreamReceivers, StreamRecvClosed(t) PROVE LookInv'
    BY <1>18 DEF StreamRecvClosed, Goto, At, Idle
  <1>19. ASSUME NEW t \in StreamReceivers, BlockForIncomingPacket(t) PROVE LookInv'
    BY <1>19 DEF BlockForIncomingPacket, Goto, At, Idle
  <1>20. ASSUME NEW t \in Producers, NewStream(t) PROVE LookInv'
    BY <1>20 DEF NewStream, Goto, At, Idle
  <1>21. ASSUME NEW t \in Producers, Lookup(t) PROVE LookInv'
    BY <1>21 DEF Lookup, Goto, At, Idle
  <1>22. ASSUME NEW t \in Producers, BackEndDeleteStream(t) PROVE LookInv'
    BY <1>22 DEF BackEndDeleteStream, Goto, At, Idle
  <1>23. ASSUME NEW t \in Producers, Push(t) PROVE LookInv'
    BY <1>23 DEF Push, Goto, At, Idle
  <1>24. ASSUME NEW t \in Producers, SignalStream(t) PROVE LookInv'
    BY <1>24 DEF SignalStream, Signal, Goto, At, Idle
  <1>25. ASSUME NEW t \in Producers, SignalNonEmptyStream(t) PROVE LookInv'
    BY <1>25 DEF SignalNonEmptyStream, Signal, Goto, At, Idle
  <1>26. ASSUME EdtRemoveNode PROVE LookInv'
    BY <1>26 DEF EdtRemoveNode, CloseLoop, Acquire, Goto, At, Idle
  <1>27. ASSUME NEW t \in Threads \ StreamReceivers, CloseSet(t) PROVE LookInv'
    <2>1. target[t] \in Streams /\ pc[t] = "c_set" /\ pc' = [pc EXCEPT ![t] = "c_signal"]
      BY <1>27 DEF CloseSet, Goto, At
    <2>2. CASE t \in NetReceivers
      <3>1. \A u \in NetReceivers : pc'[u] \in {"idle", "c_signal"}
        BY <2>1, <2>2
      <3> QED BY <3>1
    <2>3. CASE t \in {"edt", "shut"}
      <3>1. \A u \in NetReceivers : pc'[u] = pc[u] /\ streamsLock # u
        BY <2>1, <2>3
      <3> QED BY <3>1
    <2>4. CASE t \in Producers
      <3>1. ASSUME NEW s \in Streams, Settled(s) PROVE Settled(s)'
        <4>1. CASE s = target[t]
          <5>1. buffer[s] = 0
            BY <2>1, <2>4, <3>1, <4>1
          <5>2. buffer'[s] = 0 /\ owed'[s] = 0
            BY <1>27, <2>1, <3>1, <4>1, <5>1 DEF CloseSet
          <5> QED BY <5>2
        <4>2. CASE s # target[t]
          BY <1>27, <2>1, <3>1, <4>2 DEF CloseSet
        <4> QED BY <4>1, <4>2
      <3>2. \A u \in NetReceivers : pc'[u] = pc[u]
        BY <2>1, <2>4
      <3>3. streams' = streams /\ scan' = scan /\ streams \subseteq Streams
        BY <1>27 DEF CloseSet
      <3> HIDE DEF Settled
      <3> QED BY <3>1, <3>2, <3>3
    <2> QED BY <2>2, <2>3, <2>4 DEF Threads
  <1>28. ASSUME NEW t \in Threads \ StreamReceivers, CloseSignal(t) PROVE LookInv'
    BY <1>28 DEF CloseSignal, Signal, Release, Goto, At, Idle
  <1>29. ASSUME ShutDownSet PROVE LookInv'
    BY <1>29 DEF ShutDownSet, Goto, At, Idle
  <1>30. ASSUME ShutDownSignal PROVE LookInv'
    BY <1>30 DEF ShutDownSignal, Signal, Goto, At, Idle
  <1>31. ASSUME CloseStreams PROVE LookInv'
    BY <1>31 DEF CloseStreams, CloseLoop, Acquire, Goto, At, Idle
  <1> QED
    BY <1>1, <1>2, <1>3, <1>4, <1>5, <1>6, <1>7, <1>8, <1>9, <1>10, <1>11, <1>12, <1>13, <1>14, <1>15, <1>16, <1>17, <1>18, <1>19, <1>20, <1>21, <1>22, <1>23, <1>24, <1>25, <1>26, <1>27, <1>28, <1>29, <1>30, <1>31
       DEF Next, NetRecvStep, WaitForNonEmptyStream, StreamRecvStep, ProducerStep,
           AddIncomingPacket, CloseStep, ShutStep

-----------------------------------------------------------------------------
LEMMA RecvInit == Init => RecvInv
  <1> SUFFICES ASSUME Init PROVE RecvInv
    OBVIOUS
  <1> USE ThreadFacts DEF Init
  <1>1. PcType
    BY DEF PcType, Labels, NetLabels, StreamLabels, ProducerLabels, CloserLabels
  <1>2. DataType
    <2>1. buffer \in [Streams -> 0 .. MaxBuffer] /\ owed \in [Streams -> 0 .. MaxBuffer]
      BY MaxBufferAssumption
    <2>2. closed \in [Streams -> BOOLEAN] /\ shutDown \in BOOLEAN
      OBVIOUS
    <2> QED BY <2>1, <2>2 DEF DataType
  <1>3. IteratorValid /\ AssertionsHold
    BY DEF IteratorValid, AssertionsHold
  <1>4. InactiveInv /\ FoundInv /\ LockInv /\ CloserInv
    BY DEF InactiveInv, FoundInv, LockInv, CloserInv
  <1>5. OwedInv /\ LookInv /\ DeleteInv
    BY DEF OwedInv, LookInv, DeleteInv
  <1> QED BY <1>1, <1>2, <1>3, <1>4, <1>5 DEF RecvInv

LEMMA RecvStutter == RecvInv /\ UNCHANGED vars => RecvInv'
  <1> SUFFICES ASSUME RecvInv, UNCHANGED vars PROVE RecvInv'
    OBVIOUS
  <1> USE DEF vars, callVars, mapVars, strmVars, env, RecvInv
  <1>1. PcType' /\ DataType'
    BY DEF PcType, DataType
  <1>2. IteratorValid' /\ AssertionsHold'
    BY DEF IteratorValid, AssertionsHold
  <1>3. InactiveInv' /\ FoundInv' /\ LockInv' /\ CloserInv'
    BY DEF InactiveInv, FoundInv, LockInv, CloserInv
  <1>4. OwedInv' /\ LookInv' /\ DeleteInv'
    BY DEF OwedInv, LookInv, DeleteInv, Settled
  <1> QED BY <1>1, <1>2, <1>3, <1>4

\* The invariant holds in every state of every process.
LEMMA RecvInvariant == Spec => []RecvInv
  <1>1. RecvInv /\ [Next]_vars => RecvInv'
    <2>1. RecvInv /\ Next => RecvInv'
      BY PcStep, DataStep, IteratorStep, AssertionsStep, InactiveStep, FoundStep, LockStep,
         CloserStep, OwedStep, LookStep, DeleteStep DEF RecvInv
    <2> QED BY <2>1, RecvStutter
  <1> QED BY RecvInit, <1>1, PTL DEF Spec

\* Receiving is safe in every process whose application receives in one thread, for any
\* number of streams, of receive threads and of packets: _stream_iter points at an entry of
\* _streams whenever Network::recv follows it, though streams are created, closed and
\* deleted between its steps, and neither assert( *ostream ) of Network::recv nor
\* assert( cur_packet != Packet::NullPacket ) of Stream::recv can fail.
THEOREM RecvSafeTheorem == Spec => []RecvSafe
  <1>1. RecvInv => RecvSafe
    BY DEF RecvInv, RecvSafe, TypeOK, PcType, DataType
  <1> QED BY RecvInvariant, <1>1, PTL

\* waitfor_NonEmptyStream deletes no closed stream that still owes the application a packet
\* which arrived before it was closed.
THEOREM NoDropOnCloseTheorem == Spec => []NoDropOnClose
  <1>1. RecvInv => NoDropOnClose
    BY DEF RecvInv, DeleteInv, NoDropOnClose
  <1> QED BY RecvInvariant, <1>1, PTL
=============================================================================
