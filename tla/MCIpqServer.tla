---------------------------- MODULE MCIpqServer ----------------------------
(* Model-checking instance of IpqServer: sockets are interchangeable. *)
EXTENDS IpqServer, TLC

SocketSymmetry == Permutations(Socket)
=============================================================================
