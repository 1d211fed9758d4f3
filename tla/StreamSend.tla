----------------------------- MODULE StreamSend -----------------------------
(***************************************************************************)
(* Sending on one stream of one process, filtering, and the stream's       *)
(* destruction (src/src/Stream.C, EventDetector.C, FrontEndNode.C,         *)
(* InternalNode.C, BackEndNode.C).  Four kinds of call push packets        *)
(* through the stream's filters: the application's send, the library's     *)
(* send_internal, data from a neighbour, and a timeout.  The first two go  *)
(* through send_aux, which counts itself in _num_sending; the destructor   *)
(* waits until that is zero.  A filter returns packets that go on and      *)
(* packets that go the opposite way.                                       *)
(***************************************************************************)
EXTENDS Naturals, Sequences, FiniteSets

CONSTANTS AppThreads,    \* threads of the application (front-end, back-end) or of the library
          Handlers,      \* the receive threads and the event detection thread
          MaxResults,    \* bound: packets returned by the filters
          MaxLeaks       \* bound: no new send after this many sends on the closed stream

ASSUME SendAssumption ==
  /\ IsFiniteSet(AppThreads) /\ IsFiniteSet(Handlers) /\ AppThreads \cap Handlers = {}
  /\ MaxResults \in Nat /\ MaxLeaks \in Nat

VARIABLES role,       \* "FE", "CP", "BE"
          num,        \* _num_sending
          shut,       \* _was_closed
          life,       \* of the stream: "open", "closing", "erased", "freed"
          job,        \* thread -> the call it is in
          made,       \* packets the filters have returned: [id, want]
          placed,     \* where they went: [id, went]
          leaked,     \* calls of send_aux that returned without counting down (history)
          strays      \* packets returned at the places that mix up the two vectors (history)
sendVars == <<role, num, shut, life, job, made, placed, leaked, strays>>

SendThreads == AppThreads \cup Handlers
NoJob == [pc |-> "idle", op |-> "none", dir |-> "none", out |-> {}, rev |-> {}]
Opposite(d) == IF d = "up" THEN "down" ELSE "up"
\* Who is next in a direction.
Beyond(d) ==
  CASE d = "up" -> IF role = "FE" THEN "app" ELSE "parent"
    [] d = "down" -> IF role = "BE" THEN "app" ELSE "children"
InJob(t, l) == job[t].pc = l
Sending(t) == job[t].op \in {"send", "internal"}
\* BackEndNode::proc_DataFromParent sends what goes back before it keeps what goes on.
BackEndData(t) == role = "BE" /\ job[t].op = "data"

SendInit ==
  /\ role \in {"FE", "CP", "BE"} /\ num = 0 /\ shut = FALSE /\ life = "open"
  /\ job = [t \in SendThreads |-> NoJob] /\ made = {} /\ placed = {} /\ leaked = 0 /\ strays = {}

-----------------------------------------------------------------------------
Starts(t, op, dir, l) == job' = [job EXCEPT ![t] = [NoJob EXCEPT !.op = op, !.dir = dir, !.pc = l]]
\* Stream::send goes down from the front-end and up from a back-end.
send(t) ==
  /\ t \in AppThreads /\ InJob(t, "idle") /\ role # "CP" /\ life # "freed" /\ leaked < MaxLeaks
  /\ Starts(t, "send", IF role = "FE" THEN "down" ELSE "up", "enter")
  /\ UNCHANGED <<role, num, shut, life, made, placed, leaked, strays>>
\* Stream::send_internal always goes up.
send_internal(t) ==
  /\ InJob(t, "idle") /\ role # "FE" /\ life = "open" /\ leaked < MaxLeaks
  /\ Starts(t, "internal", "up", "enter")
  /\ UNCHANGED <<role, num, shut, life, made, placed, leaked, strays>>
\* proc_DataFromParent, proc_DataFromChildren: the stream is looked up first.
proc_Data(t) ==
  /\ t \in Handlers /\ InJob(t, "idle") /\ life \in {"open", "closing"}
  /\ \E d \in {"up", "down"} : (d = "up" => role # "BE") /\ (d = "down" => role # "FE") /\ Starts(t, "data", d, "filter")
  /\ UNCHANGED <<role, num, shut, life, made, placed, leaked, strays>>
\* EventDetector::handle_Timeout pushes Packet::NullPacket upstream.
handle_Timeout(t) ==
  /\ t \in Handlers /\ InJob(t, "idle") /\ life \in {"open", "closing"}
  /\ Starts(t, "timeout", "up", "filter")
  /\ UNCHANGED <<role, num, shut, life, made, placed, leaked, strays>>

\* send_aux
send_aux(t) ==
  /\ InJob(t, "enter") /\ life # "freed"
  /\ num' = num + 1 /\ job' = [job EXCEPT ![t].pc = "closed?"]
  /\ UNCHANGED <<role, shut, life, made, placed, leaked, strays>>
SendClosed(t) ==
  /\ InJob(t, "closed?") /\ shut
  /\ job' = [job EXCEPT ![t] = NoJob] /\ leaked' = leaked + 1
  /\ UNCHANGED <<role, num, shut, life, made, placed, strays>>
SendOpen(t) ==
  /\ InJob(t, "closed?") /\ ~shut
  /\ job' = [job EXCEPT ![t].pc = "filter"]
  /\ UNCHANGED <<role, num, shut, life, made, placed, leaked, strays>>

\* At most one packet each, numbered in order.
Fresh == {i \in 1..MaxResults : \A m \in made : m.id # i}
NextOnes(out, rev) ==
  /\ \A i, k \in out : i = k
  /\ \A i, k \in rev : i = k
  /\ \A i \in out, k \in rev : i < k
  /\ \A i \in out \cup rev, k \in Fresh : k < i => k \in out \cup rev
\* Stream::push_Packet: the synchronization filter may keep the packet; the transformation
\* filter returns packets of either kind.
push_Packet(t) ==
  /\ InJob(t, "filter") /\ life # "freed"
  /\ \E out \in SUBSET Fresh : \E rev \in SUBSET (Fresh \ out) :
       /\ NextOnes(out, rev)
       /\ made' = made \cup {[id |-> i, want |-> Beyond(job[t].dir)] : i \in out}
                       \cup {[id |-> i, want |-> Beyond(Opposite(job[t].dir))] : i \in rev}
       /\ job' = [job EXCEPT ![t] = [@ EXCEPT !.out = out, !.rev = rev,
                                              !.pc = IF BackEndData(t) THEN "reverse" ELSE "forward"]]
  /\ UNCHANGED <<role, num, shut, life, placed, leaked, strays>>

Put(ids, where) == placed' = placed \cup {[id |-> i, went |-> where] : i \in ids}
\* The packets that go on: send_aux always sends them; the others give them to the
\* application at the end of the tree.  InternalNode keeps its vector, the others clear it.
Forward(t) ==
  LET j == job[t]
      where == CASE j.op = "send" \/ j.op = "internal" -> IF j.dir = "up" THEN "parent" ELSE "children"
                 [] j.op = "timeout" -> IF role = "FE" THEN "app" ELSE "parent"
                 [] OTHER -> CASE role = "FE" -> "app" [] role = "BE" -> "app"
                               [] OTHER -> IF j.dir = "down" THEN "children" ELSE "parent"
  IN
  /\ InJob(t, "forward")
  /\ Put(j.out, where)
  /\ job' = [job EXCEPT ![t] = IF BackEndData(t) THEN NoJob
                               ELSE [j EXCEPT !.pc = "reverse", !.out = IF j.op = "data" THEN j.out ELSE {}]]
  /\ UNCHANGED <<role, num, shut, life, made, leaked, strays>>

Ended(t) == job' = [job EXCEPT ![t] = CASE Sending(t) -> [@ EXCEPT !.pc = "leave", !.rev = {}]
                                        [] BackEndData(t) -> [@ EXCEPT !.pc = "forward", !.rev = {}]
                                        [] OTHER -> NoJob]
\* The packets that go back.  A sender gets them itself, unless it is send_internal: that, the
\* timeout and InternalNode::proc_DataFromParent name the vector of the packets that went on.
SendBack_swapped(t) ==
  LET j == job[t] IN
  /\ InJob(t, "reverse")
  /\ IF j.op = "data" THEN Put(j.out, Beyond(Opposite(j.dir))) ELSE Put(j.rev, "app")
  /\ UNCHANGED strays
  /\ Ended(t) /\ UNCHANGED <<role, num, shut, life, made, leaked>>
SendBack(t) ==
  LET j == job[t]
      mixed == \/ j.op = "internal" \/ (j.op = "timeout" /\ role # "BE")
               \/ (j.op = "data" /\ role = "CP" /\ j.dir = "down")
      where == CASE j.op = "send" -> "app"
                 [] j.op = "internal" -> "parent"
                 [] j.op = "timeout" -> IF role = "BE" THEN "app" ELSE "children"
                 [] OTHER -> IF j.dir = "up" THEN "children" ELSE "parent"
  IN
  /\ InJob(t, "reverse")
  /\ IF j.rev = {} THEN UNCHANGED <<placed, strays>>
     ELSE /\ Put(IF mixed THEN j.out ELSE j.rev, where)
          /\ strays' = IF mixed THEN strays \cup j.out \cup j.rev ELSE strays
  /\ Ended(t) /\ UNCHANGED <<role, num, shut, life, made, leaked>>

\* The end of send_aux: the last one out signals STREAM_SEND_EMPTY.
Leave_mute(t) ==
  /\ InJob(t, "leave") /\ num' = num - 1
  /\ job' = [job EXCEPT ![t] = NoJob]
  /\ UNCHANGED <<role, shut, life, made, placed, leaked, strays>>
Leave(t) ==
  /\ InJob(t, "leave") /\ num' = num - 1
  /\ job' = [u \in SendThreads |-> IF u = t THEN NoJob
                                   ELSE IF num' = 0 /\ job[u].pc = "dwait" THEN [job[u] EXCEPT !.pc = "delete"]
                                   ELSE job[u]]
  /\ UNCHANGED <<role, shut, life, made, placed, leaked, strays>>

-----------------------------------------------------------------------------
\* Stream::close, because the front-end deleted the stream or a process failed.
close(t) ==
  /\ t \in Handlers /\ InJob(t, "idle") /\ role # "CP" /\ life = "open" /\ ~shut
  /\ shut' = TRUE
  /\ UNCHANGED <<role, num, life, job, made, placed, leaked, strays>>

\* ~Stream, by the application, or by a handler in a communication process.
Delete(t) ==
  /\ (t \in AppThreads) = (role # "CP") /\ InJob(t, "idle")
  /\ life = "open" /\ \A u \in SendThreads : job[u].op # "delete"
  /\ Starts(t, "delete", "none", "delete")
  /\ UNCHANGED <<role, num, shut, life, made, placed, leaked, strays>>
DeleteWait(t) ==
  /\ InJob(t, "delete") /\ num # 0
  /\ job' = [job EXCEPT ![t].pc = "dwait"]
  /\ UNCHANGED <<role, num, shut, life, made, placed, leaked, strays>>
DeleteClose_early(t) ==
  /\ InJob(t, "delete")
  /\ shut' = TRUE /\ life' = "closing" /\ job' = [job EXCEPT ![t].pc = "erase"]
  /\ UNCHANGED <<role, num, made, placed, leaked, strays>>
DeleteClose(t) ==
  /\ InJob(t, "delete") /\ num = 0
  /\ shut' = TRUE /\ life' = "closing" /\ job' = [job EXCEPT ![t].pc = "erase"]
  /\ UNCHANGED <<role, num, made, placed, leaked, strays>>
DeleteErase(t) ==
  /\ InJob(t, "erase")
  /\ life' = "erased" /\ job' = [job EXCEPT ![t].pc = "free"]
  /\ UNCHANGED <<role, num, shut, made, placed, leaked, strays>>
DeleteFree(t) ==
  /\ InJob(t, "free")
  /\ life' = "freed" /\ job' = [job EXCEPT ![t] = NoJob]
  /\ UNCHANGED <<role, num, shut, made, placed, leaked, strays>>

SendNext ==
  \E t \in SendThreads :
    \/ send(t) \/ send_internal(t) \/ proc_Data(t) \/ handle_Timeout(t)
    \/ send_aux(t) \/ SendClosed(t) \/ SendOpen(t) \/ push_Packet(t) \/ Forward(t) \/ SendBack(t) \/ Leave(t)
    \/ close(t) \/ Delete(t) \/ DeleteWait(t) \/ DeleteClose(t) \/ DeleteErase(t) \/ DeleteFree(t)
SendSpec == SendInit /\ [][SendNext]_sendVars

-----------------------------------------------------------------------------
\* A call of send_aux that has begun to filter never finds the filters deleted, and nobody
\* begins once the destructor has closed the stream ("No threads are allowed to send", "There
\* are no threads in Stream::send_aux": ~Stream).  Handlers are not counted: conditions (3)
\* and (4) "are not satisfied right now".
NoSenderInFreedStream ==
  life \in {"closing", "erased", "freed"} =>
    \A t \in SendThreads : Sending(t) => job[t].pc \in {"enter", "closed?"}

\* The destructor is not forgotten: while it sleeps a sender is still to count down, or one
\* has returned from a closed stream without doing so.
DestructorIsWoken ==
  (\E t \in SendThreads : InJob(t, "dwait")) => leaked > 0 \/ \E t \in SendThreads : Sending(t) /\ job[t].pc # "enter"

\* What the filters return is passed on once and to the right neighbour or to the application,
\* in every kind of process and of call; lost or misled are only the packets of the calls that
\* mix up the two vectors (send_internal, handle_Timeout, InternalNode::proc_DataFromParent).
ResultsGoTheirWay ==
  \A m \in made :
    \/ m.id \in strays
    \/ \E t \in SendThreads : m.id \in job[t].out \cup job[t].rev
    \/ {p \in placed : p.id = m.id} = {[id |-> m.id, went |-> m.want]}

\* The destructor waits only for threads in send_aux.
WaitsForSendersOnly ==
  (\E t \in SendThreads : InJob(t, "dwait")) => \E t \in SendThreads : Sending(t) /\ job[t].pc # "enter"
=============================================================================
