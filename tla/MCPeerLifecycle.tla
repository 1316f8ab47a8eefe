-------------------------- MODULE MCPeerLifecycle --------------------------
(* Small instances of PeerLifecycle for TLC. *)
EXTENDS PeerLifecycleInvariant

CONSTANTS p1, p2, h1, h2 \* the values of the .cfg files
=============================================================================
