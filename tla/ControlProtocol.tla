---------------------------- MODULE ControlProtocol ----------------------------
(***************************************************************************)
(* The control protocol that creates the internal stream for port updates  *)
(* at startup (src/src/ParentNode.C, BackEndNode.C, ChildNode.C).  The     *)
(* front-end creates the stream and asks its children to do so; a process  *)
(* with children waits for as many acknowledgements as it has children and *)
(* acknowledges to its parent.  The receive thread of every child hands an *)
(* acknowledgement to the waiting thread through the entry for the         *)
(* protocol in active_ctl_protocols; the event-detection thread takes a    *)
(* failed child out of the process and aborts the active protocols.        *)
(*                                                                         *)
(* The entry points to a Monitor on the stack of the waiting thread.  An   *)
(* aborted wait leaves the entry behind ("stale"), and a thread that uses  *)
(* it afterwards either gets away with it or hangs.  Only processes        *)
(* without children fail here:  recovery is a protocol of its own.         *)
(***************************************************************************)
EXTENDS Naturals, FiniteSets

CONSTANTS Node, Root,
          Parent,    \* the tree: the parent of every node but the root
          Failures   \* which nodes may fail: a set of sets of nodes without children

Below == Node \ {Root}
Children(n) == {c \in Below : Parent[c] = n}
Leaves == {n \in Below : Children(n) = {}}
Parents == Node \ Leaves

ASSUME TreeAssumption ==
  /\ IsFiniteSet(Node) /\ Root \in Node
  /\ Parent \in [Below -> Node] /\ Children(Root) # {}
ASSUME FailuresAssumption == Failures \subseteq SUBSET Leaves

VARIABLES
  mortal,     \* the nodes that may fail in this behaviour
  dead,       \* the nodes that have failed
  asked,      \* nodes with the PROT_NEW_INTERNAL_STREAM packet on its way to them
  deleting,   \* nodes with the PROT_DEL_STREAM packet on its way to them
  stream,     \* nodes that have the stream
  children,   \* Network::_children of every parent
  pc,         \* where every parent is in proc_newStream
  expected,   \* num_acks_expected
  entry,      \* the protocol's entry in active_ctl_protocols: none, active or stale
  acked,      \* its num_acked
  aborted,    \* its aborted
  failed,     \* _num_failed_children
  edt,        \* where the event-detection thread of every parent is
  ack,        \* the acknowledgement of a node: its success byte, or none so far
  handler     \* where its parent's receive thread is with it

requests == <<asked, deleting, stream>>
waiter == <<pc, expected>>
record == <<entry, acked, aborted>>
detector == <<children, failed, edt>>
vars == <<mortal, dead, requests, waiter, record, detector, ack, handler>>

\* The types of the variables; num_acked and _num_failed_children are counts that never
\* exceed the number of processes below the root.
TypeOK ==
  /\ mortal \in Failures /\ dead \subseteq mortal
  /\ asked \subseteq Below /\ deleting \subseteq Below /\ stream \subseteq Node
  /\ children \in [Parents -> SUBSET Below]
  /\ pc \in [Parents -> {"idle", "count", "register", "check", "wait", "erase",
                         "giveup", "succeeded", "failed"}]
  /\ expected \in [Parents -> 0..Cardinality(Below)]
  /\ entry \in [Parents -> {"none", "active", "stale"}]
  /\ acked \in [Parents -> 0..Cardinality(Below)]
  /\ aborted \in [Parents -> BOOLEAN]
  /\ failed \in [Parents -> 0..Cardinality(Below)]
  /\ edt \in [Parents -> {"idle", "notify", "abort", "stuck"}]
  /\ ack \in [Below -> {"none", "success", "failure"}]
  /\ handler \in [Below -> {"idle", "found", "over", "dropped", "stuck"}]

Init ==
  /\ mortal \in Failures /\ dead = {}
  /\ asked = {} /\ deleting = {} /\ stream = {}
  /\ children = [n \in Parents |-> Children(n)]
  /\ pc = [n \in Parents |-> "idle"] /\ expected = [n \in Parents |-> 0]
  /\ entry = [n \in Parents |-> "none"]
  /\ acked = [n \in Parents |-> 0] /\ aborted = [n \in Parents |-> FALSE]
  /\ failed = [n \in Parents |-> 0] /\ edt = [n \in Parents |-> "idle"]
  /\ ack = [n \in Below |-> "none"] /\ handler = [n \in Below |-> "idle"]

------------------------------------------------------------------------------
\* The thread that waits at n goes on, if it waits (SignalCondition).
Woken(n) == IF pc[n] = "wait" THEN [pc EXCEPT ![n] = "check"] ELSE pc

\* The front-end calls new_InternalStream, any other parent has the request from its own
\* parent:  register the stream, and ask the children.
proc_newStream(n) ==
  /\ pc[n] = "idle" /\ (n = Root \/ n \in asked)
  /\ stream' = stream \cup {n}
  /\ asked' = (asked \ {n}) \cup children[n]
  /\ pc' = [pc EXCEPT ![n] = "count"]
  /\ UNCHANGED <<mortal, dead, deleting, expected, record, detector, ack, handler>>

\* A back-end creates the stream and acknowledges at once.
BackEnd_newStream(n) ==
  /\ n \in asked \cap Leaves /\ n \notin dead
  /\ stream' = stream \cup {n}
  /\ asked' = asked \ {n}
  /\ ack' = [ack EXCEPT ![n] = "success"]
  /\ UNCHANGED <<mortal, dead, deleting, waiter, record, detector, handler>>

\* The children are counted after they were asked; without any there is nothing to wait
\* for.
get_NumChildren(n) ==
  /\ pc[n] = "count"
  /\ expected' = [expected EXCEPT ![n] = Cardinality(children[n])]
  /\ pc' = [pc EXCEPT ![n] = IF children[n] = {} THEN "erase" ELSE "register"]
  /\ UNCHANGED <<mortal, dead, requests, record, detector, ack, handler>>

\* An entry whose aborted flag is not initialized.
Register_uninitialized(n) ==
  /\ pc[n] = "register"
  /\ entry' = [entry EXCEPT ![n] = "active"]
  /\ acked' = [acked EXCEPT ![n] = 0]
  /\ aborted' \in {[aborted EXCEPT ![n] = b] : b \in BOOLEAN}
  /\ pc' = [pc EXCEPT ![n] = "check"]
  /\ UNCHANGED <<mortal, dead, requests, expected, detector, ack, handler>>

\* The entry, under cps_sync.  The tag is in use by one wait at most, since the stream for
\* port updates is the only one that is created this way.
Register(n) ==
  /\ pc[n] = "register"
  /\ entry' = [entry EXCEPT ![n] = "active"]
  /\ acked' = [acked EXCEPT ![n] = 0]
  /\ aborted' = [aborted EXCEPT ![n] = FALSE]
  /\ pc' = [pc EXCEPT ![n] = "check"]
  /\ UNCHANGED <<mortal, dead, requests, expected, detector, ack, handler>>

\* A wait that ends one acknowledgement early.
Enough_early(n) == acked[n] + 1 >= expected[n]

Enough(n) == acked[n] >= expected[n]
Abort(n) == failed[n] > 0 \/ aborted[n]

\* The loop condition, the abort flag and the wait, under the wait's Monitor.
Check(n) ==
  /\ pc[n] = "check"
  /\ pc' = [pc EXCEPT ![n] = IF Enough(n) THEN "erase" ELSE IF Abort(n) THEN "giveup" ELSE "wait"]
  /\ UNCHANGED <<mortal, dead, requests, expected, record, detector, ack, handler>>

\* A failed wait that leaves the stream where it is.
Deleted_not(n) == UNCHANGED <<stream, deleting>>

\* The clean-up after a failed wait; ~Stream of the front-end tells the children.
Deleted(n) ==
  /\ stream' = stream \ {n}
  /\ deleting' = IF n = Root THEN deleting \cup children[n] ELSE deleting

\* The success byte that n sends to its parent, if it has one.
ack_ControlProtocol(n, success) ==
  ack' = IF n = Root THEN ack ELSE [ack EXCEPT ![n] = success]

\* The rest of waitfor_ControlProtocolAcks and of proc_newStream:  the entry is erased ...
Succeed(n) ==
  /\ pc[n] = "erase"
  /\ entry' = [entry EXCEPT ![n] = "none"]
  /\ pc' = [pc EXCEPT ![n] = "succeeded"]
  /\ ack_ControlProtocol(n, "success")
  /\ UNCHANGED <<mortal, dead, requests, expected, acked, aborted, detector, handler>>

\* ... or stays, and the stream is deleted.
GiveUp(n) ==
  /\ pc[n] = "giveup"
  /\ entry' = [entry EXCEPT ![n] = "stale"]
  /\ Deleted(n)
  /\ pc' = [pc EXCEPT ![n] = "failed"]
  /\ ack_ControlProtocol(n, "failure")
  /\ UNCHANGED <<mortal, dead, asked, expected, acked, aborted, detector, handler>>

\* proc_deleteStream at a node below the root, whose receive thread has to be back from
\* proc_newStream.
proc_deleteStream(n) ==
  /\ n \in deleting \ (asked \cup dead)
  /\ n \in Parents => pc[n] \in {"succeeded", "failed"}
  /\ stream' = stream \ {n}
  /\ deleting' = (deleting \ {n}) \cup (IF n \in Parents THEN children[n] ELSE {})
  /\ UNCHANGED <<mortal, dead, asked, waiter, record, detector, ack, handler>>

------------------------------------------------------------------------------
\* proc_ControlProtocolAck looks for the entry under cps_sync:  without an entry it tries
\* again, or drops a negative acknowledgement.
AckLookup(c) ==
  /\ ack[c] # "none" /\ handler[c] = "idle" /\ edt[Parent[c]] # "stuck"
  /\ entry[Parent[c]] # "none" \/ ack[c] = "failure"
  /\ handler' = [handler EXCEPT ![c] = IF entry[Parent[c]] # "none" THEN "found" ELSE "dropped"]
  /\ UNCHANGED <<mortal, dead, requests, waiter, record, detector, ack>>

\* Use of the Monitor of an entry that is stale or erased.
UseAfterReturn(c) ==
  /\ handler' \in {[handler EXCEPT ![c] = l] : l \in {"over", "stuck"}}
  /\ UNCHANGED <<pc, acked, aborted>>

\* It counts a positive acknowledgement, or calls abort_ControlProtocol, which does nothing
\* the second time.
AckUse(c) ==
  /\ handler[c] = "found"
  /\ LET n == Parent[c]
         again == ack[c] = "failure" /\ aborted[n] /\ entry[n] # "none"
     IN \/ /\ entry[n] = "active" /\ ~again
           /\ IF ack[c] = "success"
                THEN acked' = [acked EXCEPT ![n] = @ + 1] /\ UNCHANGED aborted
                ELSE aborted' = [aborted EXCEPT ![n] = TRUE] /\ UNCHANGED acked
           /\ pc' = Woken(n)
           /\ handler' = [handler EXCEPT ![c] = "over"]
        \/ /\ again
           /\ handler' = [handler EXCEPT ![c] = "over"]
           /\ UNCHANGED <<pc, acked, aborted>>
        \/ entry[n] # "active" /\ ~again /\ UseAfterReturn(c)
  /\ UNCHANGED <<mortal, dead, requests, expected, entry, detector, ack>>

------------------------------------------------------------------------------
\* A process fails.  The acknowledgement that it has sent may be lost.
Fail(c) ==
  /\ c \in mortal \ dead
  /\ dead' = dead \cup {c}
  /\ ack' \in {ack, IF handler[c] = "idle" THEN [ack EXCEPT ![c] = "none"] ELSE ack}
  /\ UNCHANGED <<mortal, requests, waiter, record, detector, handler>>

\* recover_FromChildFailure:  the child is taken out of _children ...
RemoveChild(n) ==
  /\ edt[n] = "idle"
  /\ \E c \in children[n] \cap dead :
       children' = [children EXCEPT ![n] = @ \ {c}]
  /\ edt' = [edt EXCEPT ![n] = "notify"]
  /\ UNCHANGED <<mortal, dead, requests, waiter, record, failed, ack, handler>>

\* ... is counted ...
notify_OfChildFailure(n) ==
  /\ edt[n] = "notify"
  /\ failed' = [failed EXCEPT ![n] = @ + 1]
  /\ edt' = [edt EXCEPT ![n] = "abort"]
  /\ UNCHANGED <<mortal, dead, requests, waiter, record, children, ack, handler>>

\* An abort that wakes nobody.
abort_silent(n) ==
  /\ edt[n] = "abort"
  /\ edt' = [edt EXCEPT ![n] = "idle"]
  /\ aborted' = [aborted EXCEPT ![n] = entry[n] # "none"]
  /\ UNCHANGED <<mortal, dead, requests, waiter, entry, acked, children, failed, ack, handler>>

\* ... and the protocol is aborted, under cps_sync.
abort_ActiveControlProtocols(n) ==
  /\ edt[n] = "abort"
  /\ \/ /\ entry[n] = "none" \/ aborted[n]
        /\ edt' = [edt EXCEPT ![n] = "idle"]
        /\ UNCHANGED <<aborted, pc>>
     \/ /\ entry[n] = "active" /\ ~aborted[n]
        /\ aborted' = [aborted EXCEPT ![n] = TRUE]
        /\ pc' = Woken(n)
        /\ edt' = [edt EXCEPT ![n] = "idle"]
     \/ /\ entry[n] = "stale" /\ ~aborted[n]
        /\ edt' \in {[edt EXCEPT ![n] = l] : l \in {"idle", "stuck"}}
        /\ UNCHANGED <<aborted, pc>>
  /\ UNCHANGED <<mortal, dead, requests, expected, entry, acked, children, failed, ack,
                 handler>>

ParentStep(n) ==
  \/ proc_newStream(n) \/ get_NumChildren(n) \/ Register(n) \/ Check(n)
  \/ Succeed(n) \/ GiveUp(n)
DetectorStep(n) ==
  RemoveChild(n) \/ notify_OfChildFailure(n) \/ abort_ActiveControlProtocols(n)
AckStep(c) == AckLookup(c) \/ AckUse(c)
RequestStep(c) == BackEnd_newStream(c) \/ proc_deleteStream(c)

Next ==
  \/ \E n \in Parents : ParentStep(n) \/ DetectorStep(n)
  \/ \E c \in Below : AckStep(c) \/ RequestStep(c) \/ Fail(c)

Spec == Init /\ [][Next]_vars

\* Threads of living processes go on, and packets arrive.  Nobody has to fail.
Fairness ==
  /\ \A n \in Parents : WF_vars(ParentStep(n)) /\ WF_vars(DetectorStep(n))
  /\ \A c \in Below : WF_vars(AckStep(c)) /\ WF_vars(RequestStep(c))

FairSpec == Spec /\ Fairness
------------------------------------------------------------------------------
\* n has acknowledged the stream, or is the front-end and has it.
Succeeded(n) == IF n \in Parents THEN pc[n] = "succeeded" ELSE n \in stream

\* Acknowledgements are only counted:  still, as long as no process has failed, a process
\* succeeds only after all of its children have, with the stream in place, and hence
\* after its whole subtree.
SuccessFromBelow ==
  dead = {} => \A n \in Parents : Succeeded(n) =>
                 \A c \in Children(n) : Succeeded(c) /\ {n, c} \subseteq stream

\* As long as no process has failed, every acknowledgement finds its waiting thread still
\* there: none is late for a wait that has returned, with a Monitor that is gone.
NoLateAck ==
  dead = {} => \A c \in Below :
    /\ handler[c] = "found" => entry[Parent[c]] = "active"
    /\ Parent[c] \in Parents /\ pc[Parent[c]] = "succeeded" => handler[c] = "over"

\* A protocol fails only because of a failed process, and only where that process is below
\* the one that gives up.
OnlyFailuresAbort ==
  \A n \in Parents : pc[n] = "failed" =>
    \E c \in Children(n) : c \in dead \/ (c \in Parents /\ pc[c] = "failed")

\* The stream has been created in all living processes when the front-end gets it
\* (ParentNode.C:603, "wait for stream to be created in entire subtree").
CreatedEverywhere == pc[Root] = "succeeded" => Node \ dead \subseteq stream

\* Whatever fails, a thread that waits for acknowledgements is woken in the end, except by
\* a negative acknowledgement that came before the wait was registered and was dropped.
WaitEnds ==
  \A n \in Parents :
    (pc[n] = "wait") ~> (pc[n] # "wait" \/ \E c \in Children(n) : handler[c] = "dropped")

\* After the front-end has given up, no living process keeps the stream, except below one
\* that waits for good (ParentNode.C:610, "Stream creation has failed, we should clean up").
FailureCleansUp ==
  (pc[Root] = "failed")
    ~> (stream \subseteq dead \/ \E c \in Below : handler[c] = "dropped")

\* A creation fails only above a failed process, and one that failed is taken back in the whole
\* tree (waitfor_ControlProtocolAcks, proc_newStream, proc_deleteStream).
FailureHandled == []OnlyFailuresAbort /\ FailureCleansUp
=============================================================================
