---------------------------- MODULE MCConnections ---------------------------
(* Connections on small instances. *)
EXTENDS Connections, TLC

=============================================================================
