---------------------------- MODULE MCPeerClient ----------------------------
(* Model-checking instance of PeerClient. *)
EXTENDS PeerClient
=============================================================================
