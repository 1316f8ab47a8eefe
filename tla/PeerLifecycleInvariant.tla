----------------------- MODULE PeerLifecycleInvariant -----------------------
(***************************************************************************)
(* The inductive invariant of PeerLifecycle: what the handshake of a peer, *)
(* the messages on the wire and the place of each coroutine prove about    *)
(* the two configurations and state machines.                              *)
(***************************************************************************)
EXTENDS PeerLifecycle

(* What is known of peer p.  NoTurnBeforeBothVerified is not inductive: it  *)
(* does not say why the opponent of a peer that became ready had verified   *)
(* before it sent READY, nor what a reply or a request on the wire proves.  *)
Verified(p) ==
  /\ capable[p]
  /\ capable[Opponent(p)]
  /\ config_hash[p] = config_hash[Opponent(p)]

HandshakeKnown(p) ==
  /\ handshake[p].our_hello_acknowledged => capable[p] /\ capable[Opponent(p)]
  /\ handshake[p].our_config_accepted => Verified(p)
  /\ handshake[p].opponent_ready => handshake[Opponent(p)].our_config_accepted

FlowKnown(p) ==
  /\ flow[p] = "config_hash" => handshake[p].our_hello_acknowledged
  /\ flow[p] = "ready" => handshake[p].our_config_accepted
  /\ flow[p] \in {"starting", "probing"} \cup Kind => ~handshake[p].we_sent_ready

ReplyKnown(p) == reply[p] = "hello" => capable[p]

(* _maybe_become_ready lets only a complete handshake through. *)
CommittedKnown(p) == Committed(p) => Complete(handshake[p])

(* Where run_peer is suspended tells in which states the machine may be.    *)
Leavable == {"hello_exchange", "config_exchange", "ready_wait", "ready",
             "turn_complete", "turn_failed", "disconnected"}
MachineFitsFlow(p) ==
  /\ flow[p] = "starting" => machine[p] = "created"
  /\ flow[p] = "probing" => machine[p] = "connecting"
  /\ flow[p] = "hello" => machine[p] = "hello_exchange"
  /\ flow[p] = "config_hash" => machine[p] = "config_exchange"
  /\ flow[p] = "ready" => machine[p] = "ready_wait"
  /\ flow[p] = "awaiting_ready" => machine[p] \in {"ready_wait", "ready"}
  /\ flow[p] = "turns" =>
       machine[p] \in {"ready", "waiting_for_opponent_commit",
                       "waiting_for_opponent_reveal", "turn_complete"}
  /\ flow[p] = "leaving" => machine[p] \in Leavable \cup {"error"}
  /\ flow[p] = "gone" => machine[p] \in TERMINAL_STATES

TurnsLeft(p) ==
  machine[p] \in {"waiting_for_opponent_commit", "waiting_for_opponent_reveal"} =>
    turns[p] < MaxTurn

PeerKnown(p) ==
  /\ HandshakeKnown(p)
  /\ FlowKnown(p)
  /\ ReplyKnown(p)
  /\ CommittedKnown(p)
  /\ MachineFitsFlow(p)
  /\ TurnsLeft(p)

(* READY is only sent by a peer that has verified. *)
WireKnown ==
  \A m \in requests : m.kind = "ready" => handshake[m.sender].our_config_accepted

(* The inductive invariant: handshakes, coroutines, replies, requests and   *)
(* state machines of both peers fit together.                               *)
LifecycleInvariant ==
  /\ TypeOK
  /\ ~refused
  /\ WireKnown
  /\ \A p \in Peer : PeerKnown(p)
=============================================================================
