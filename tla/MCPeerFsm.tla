------------------------------ MODULE MCPeerFsm ------------------------------
(* Both ends of one connection, and how long a channel gets.               *)
EXTENDS PeerFsm

=============================================================================
