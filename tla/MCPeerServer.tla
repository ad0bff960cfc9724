---------------------------- MODULE MCPeerServer ----------------------------
(* Model-checking instance of PeerServer. *)
EXTENDS PeerServer
=============================================================================
