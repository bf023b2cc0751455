----------------------------- MODULE MCPeerPair -----------------------------
(* PeerPair, for TLC. *)
EXTENDS PeerPair
=============================================================================
