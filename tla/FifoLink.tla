------------------------------ MODULE FifoLink ------------------------------
(***************************************************************************)
(* What a connection between two MRNet processes promises to the code that *)
(* sends on it (Stream::send_aux, Network::send_PacketToChildren, ...):    *)
(* packets arrive in the order in which they were sent, none is duplicated *)
(* and none is skipped; when the connection breaks, nothing more arrives.  *)
(***************************************************************************)
EXTENDS Naturals, Sequences

CONSTANT Packet

VARIABLES queued,   \* packets handed to PeerNode::send, in order
          wire,     \* packets the connection has accepted, in order
          broken    \* the connection has failed

vars == <<queued, wire, broken>>

Init == queued = <<>> /\ wire = <<>> /\ broken = FALSE

\* wire grows to a longer prefix of queued (or stays).
Extend == \E n \in Len(wire) .. Len(queued) : wire' = SubSeq(queued, 1, n)

Enqueue == /\ \E p \in Packet : queued' = Append(queued, p)
           /\ UNCHANGED <<wire, broken>>

Transmit == ~broken /\ Extend /\ UNCHANGED <<queued, broken>>

Break == ~broken /\ broken' = TRUE /\ Extend /\ UNCHANGED queued

Next == Enqueue \/ Transmit \/ Break

Spec == Init /\ [][Next]_vars
=============================================================================
