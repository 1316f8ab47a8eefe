----------------------------- MODULE MCPeerTurn -----------------------------
(* Small instances of PeerTurn for TLC. *)
EXTENDS PeerTurnInvariant

CONSTANTS north, south \* the moves of the .cfg files

(* State constraint of the cross-turn retry run: only the police's calls    *)
(* are ever repeated (the two roles run the same code).                     *)
OnlyPoliceRepeats == call["thief"] # None => call["thief"].attempt = 1
=============================================================================
