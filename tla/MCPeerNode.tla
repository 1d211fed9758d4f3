----------------------------- MODULE MCPeerNode -----------------------------
(* Instances of PeerNode for TLC: one application thread and one link. *)
EXTENDS PeerNode
OneUser == {"app"}
=============================================================================
