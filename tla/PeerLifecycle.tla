--------------------------- MODULE PeerLifecycle ---------------------------
(***************************************************************************)
(* The life of the two peer processes around the match: server up, polling *)
(* for the opponent, HELLO, CONFIG_HASH, READY, the turns as far as the    *)
(* state machine sees them, and the wind-down (run.run_peer over           *)
(* PeerOrchestrator and PeerStateMachine).                                 *)
(*                                                                         *)
(* A peer is one event loop: the code between two awaits is one action,    *)
(* and an inbound message is handled in one.  The exchange inside a turn   *)
(* is PeerTurn's; here a turn only walks through its states.               *)
(***************************************************************************)
EXTENDS Naturals, Sequences

CONSTANTS
  Peer,          \* the two peers
  Hash,          \* digests of the configurations a peer may have loaded
  MaxAttempts,   \* max_retries + 1: attempts one call makes
  MaxTurn        \* --turns (bound)

ASSUME PeerAssumption ==
  /\ \E p, q \in Peer : p # q /\ Peer = {p, q}
  /\ MaxAttempts \in Nat \ {0}
  /\ MaxTurn \in Nat

Opponent(p) == CHOOSE q \in Peer : q # p

-----------------------------------------------------------------------------
(* states.py: the lifecycle and its table. *)

HandshakeStates == {"connecting", "hello_exchange", "config_exchange",
                    "config_verified", "ready_wait"}

(* The states of a turn in their mandatory order. *)
TurnOrder == <<"selecting_action", "local_action_sealed",
               "waiting_for_opponent_commit", "both_commits_received",
               "reveal_allowed", "local_reveal_sent",
               "waiting_for_opponent_reveal", "verifying_reveal",
               "both_reveals_verified", "applying_turn", "turn_complete">>
TurnStates == {TurnOrder[i] : i \in DOMAIN TurnOrder}

TERMINAL_STATES == {"finished", "error"}

PeerState == {"created", "starting", "server_ready", "ready", "turn_failed",
              "finishing", "disconnected"}
               \cup HandshakeStates \cup TurnStates \cup TERMINAL_STATES

(* A handshake state leads to the next one, to a lost opponent or to the    *)
(* wind-down; a turn state to the next one or to the failed turn.           *)
InHandshake_NoWindDown(next) == {next, "disconnected", "error"}
InHandshake(next) == {next, "disconnected", "finishing", "error"}
InTurn(next) == {next, "turn_failed", "error"}
WaitingInTurn(next) == InTurn(next) \cup {"disconnected"}

TRANSITIONS ==
  [s \in PeerState |->
     CASE s = "created" -> {"starting", "error"}
       [] s = "starting" -> {"server_ready", "error"}
       [] s = "server_ready" -> {"connecting", "finishing", "error"}
       [] s = "connecting" -> InHandshake("hello_exchange")
       [] s = "hello_exchange" -> InHandshake("config_exchange")
       [] s = "config_exchange" -> InHandshake("config_verified")
       [] s = "config_verified" -> InHandshake("ready_wait")
       [] s = "ready_wait" -> InHandshake("ready")
       [] s \in {"ready", "turn_complete"} -> InHandshake("selecting_action")
       [] s = "selecting_action" -> InTurn("local_action_sealed")
       [] s = "local_action_sealed" -> InTurn("waiting_for_opponent_commit")
       [] s = "waiting_for_opponent_commit" ->
            WaitingInTurn("both_commits_received")
       [] s = "both_commits_received" -> InTurn("reveal_allowed")
       [] s = "reveal_allowed" -> InTurn("local_reveal_sent")
       [] s = "local_reveal_sent" -> InTurn("waiting_for_opponent_reveal")
       [] s = "waiting_for_opponent_reveal" -> WaitingInTurn("verifying_reveal")
       [] s = "verifying_reveal" -> InTurn("both_reveals_verified")
       [] s = "both_reveals_verified" -> InTurn("applying_turn")
       [] s = "applying_turn" -> InTurn("turn_complete")
       [] s \in {"turn_failed", "disconnected"} -> {"finishing", "error"}
       [] s = "finishing" -> {"finished", "error"}
       [] s \in TERMINAL_STATES -> {}]

(* Is every transition of this walk legal when it starts in s?  Staying in  *)
(* a state that is not terminal is the idempotent re-entry.                 *)
LegalFrom(s, walk) ==
  \A i \in DOMAIN walk :
    LET source == IF i = 1 THEN s ELSE walk[i - 1]
    IN  \/ walk[i] \in TRANSITIONS[source]
        \/ walk[i] = source /\ source \notin TERMINAL_STATES

-----------------------------------------------------------------------------
VARIABLES
  config_hash, \* digest of the configuration the peer loaded (never changes)
  capable,     \* does it support MANDATORY_CAPABILITIES (never changes)
  faulty,      \* may requests and replies be lost and processes stop (constant)
  machine,     \* PeerStateMachine.state
  flow,        \* where run_peer's coroutine is suspended
  handshake,   \* HandshakeState
  call,        \* attempts left of the send in progress, 0 without one
  reply,       \* the reply on its way to that send
  requests,    \* requests on the wire, late copies included
  turns,       \* turns completed
  refused      \* did transition() ever raise InvalidPeerStateError

parameters == <<config_hash, capable, faulty>>
vars == <<config_hash, capable, faulty, machine, flow, handshake, call, reply,
          requests, turns, refused>>

Kind == {"hello", "config_hash", "ready"}
Flow == {"starting", "probing"} \cup Kind
          \cup {"awaiting_ready", "turns", "leaving", "gone", "crashed"}
Reply == {"none", "hello", "incapable", "config_accepted", "config_rejected",
          "ack"}
HandshakeState == [our_hello_acknowledged : BOOLEAN,
                   our_config_accepted : BOOLEAN,
                   opponent_ready : BOOLEAN,
                   we_sent_ready : BOOLEAN]
Request == [sender : Peer, kind : Kind]

TypeOK ==
  /\ config_hash \in [Peer -> Hash]
  /\ capable \in [Peer -> BOOLEAN]
  /\ faulty \in BOOLEAN
  /\ machine \in [Peer -> PeerState]
  /\ flow \in [Peer -> Flow]
  /\ handshake \in [Peer -> HandshakeState]
  /\ call \in [Peer -> 0..MaxAttempts]
  /\ reply \in [Peer -> Reply]
  /\ requests \subseteq Request
  /\ turns \in [Peer -> 0..MaxTurn]
  /\ refused \in BOOLEAN

Init ==
  /\ config_hash \in [Peer -> Hash]
  /\ capable \in [Peer -> BOOLEAN]
  /\ faulty \in BOOLEAN
  /\ machine = [p \in Peer |-> "created"]
  /\ flow = [p \in Peer |-> "starting"]
  /\ handshake = [p \in Peer |->
                    [our_hello_acknowledged |-> FALSE,
                     our_config_accepted |-> FALSE,
                     opponent_ready |-> FALSE,
                     we_sent_ready |-> FALSE]]
  /\ call = [p \in Peer |-> 0]
  /\ reply = [p \in Peer |-> "none"]
  /\ requests = {}
  /\ turns = [p \in Peer |-> 0]
  /\ refused = FALSE

-----------------------------------------------------------------------------
(* The walk of the state machine in one step of the code.  A transition     *)
(* that is not in the table raises.                                         *)
Walk(p, walk) ==
  /\ machine' = [machine EXCEPT ![p] =
                   IF LegalFrom(@, walk) THEN walk[Len(walk)] ELSE @]
  /\ refused' = (refused \/ ~LegalFrom(machine[p], walk))
Stay == UNCHANGED <<machine, refused>>

Goto(p, place) == flow' = [flow EXCEPT ![p] = place]
Down(p) == flow[p] \in {"gone", "crashed"}
Left(p) == flow[p] = "leaving" \/ Down(p)
Serving(p) == flow[p] # "starting" /\ ~Down(p)

(* client.send: the first attempt of a new message, under a fresh id. *)
Send_OneRetryMore(p, kind) ==
  /\ Goto(p, kind)
  /\ call' = [call EXCEPT ![p] = MaxAttempts + 1]
  /\ reply' = [reply EXCEPT ![p] = "none"]
  /\ requests' = requests \cup {[sender |-> p, kind |-> kind]}
Send(p, kind) ==
  /\ Goto(p, kind)
  /\ call' = [call EXCEPT ![p] = MaxAttempts]
  /\ reply' = [reply EXCEPT ![p] = "none"]
  /\ requests' = requests \cup {[sender |-> p, kind |-> kind]}
NoSend(p) ==
  /\ call' = [call EXCEPT ![p] = 0]
  /\ reply' = [reply EXCEPT ![p] = "none"]
  /\ UNCHANGED requests

(* mark_server_ready, then wait_for_peer starts to poll. *)
StartServer(p) ==
  /\ flow[p] = "starting"
  /\ Goto(p, "probing")
  /\ Walk(p, <<"starting", "server_ready", "connecting">>)
  /\ UNCHANGED <<parameters, handshake, call, reply, requests, turns>>

(* health_check succeeded: perform_handshake sends HELLO. *)
PeerReachable(p) ==
  /\ flow[p] = "probing"
  /\ Serving(Opponent(p))
  /\ Walk(p, <<"hello_exchange">>)
  /\ Send(p, "hello")
  /\ UNCHANGED <<parameters, handshake, turns>>

(* The opponent never answered within the attempts. *)
PeerUnreachable(p) ==
  /\ flow[p] = "probing"
  /\ faulty \/ Down(Opponent(p))
  /\ Walk(p, <<"disconnected">>)
  /\ Goto(p, "leaving")
  /\ UNCHANGED <<parameters, handshake, call, reply, requests, turns>>

-----------------------------------------------------------------------------
(* Inbound.  Every handler only sets what it is told, so a copy that the    *)
(* registry answers from memory has no other effect than the first one.     *)

Complete(h) == \A f \in DOMAIN h : h[f]

(* _maybe_become_ready, with the handshake h that is being stored. *)
MaybeBecomeReady_Eager(p, h) ==
  IF machine[p] = "ready_wait" THEN Walk(p, <<"ready">>) ELSE Stay
MaybeBecomeReady(p, h) ==
  IF Complete(h) /\ machine[p] = "ready_wait"
  THEN Walk(p, <<"ready">>)
  ELSE Stay

ReplyTo(p, kind) ==
  LET sender == Opponent(p)
  IN  CASE kind = "hello" ->
             IF capable[sender] THEN "hello" ELSE "incapable"
        [] kind = "config_hash" ->
             IF config_hash[p] = config_hash[sender]
             THEN "config_accepted" ELSE "config_rejected"
        [] kind = "ready" -> "ack"

(* _on_hello, _on_config_hash and _on_ready: p handles a request.  The      *)
(* reply reaches the opponent if it is still waiting for it.                *)
Handle(p, m) ==
  LET sender == Opponent(p)
      h == IF m.kind = "ready"
           THEN [handshake[p] EXCEPT !.opponent_ready = TRUE]
           ELSE handshake[p]
  IN  /\ m \in requests
      /\ m.sender = sender
      /\ Serving(p)
      /\ requests' = requests \ {m}
      /\ handshake' = [handshake EXCEPT ![p] = h]
      /\ IF m.kind = "ready" THEN MaybeBecomeReady(p, h) ELSE Stay
      /\ \/ /\ flow[sender] = m.kind
            /\ call[sender] > 0
            /\ reply' = [reply EXCEPT ![sender] = ReplyTo(p, m.kind)]
         \/ /\ faulty \/ flow[sender] # m.kind
            /\ UNCHANGED reply
      /\ UNCHANGED <<parameters, flow, call, turns>>

-----------------------------------------------------------------------------
(* perform_handshake. *)

(* _fail: the handshake was answered, but not with what it needs. *)
Fail(p) ==
  /\ Walk(p, <<"error">>)
  /\ Goto(p, "leaving")
  /\ NoSend(p)
  /\ UNCHANGED <<parameters, handshake, turns>>

(* The opponent refused us, or lacks a capability itself. *)
HelloRejected(p) ==
  /\ flow[p] = "hello"
  /\ \/ reply[p] = "incapable"
     \/ reply[p] = "hello" /\ ~capable[Opponent(p)]
  /\ Fail(p)

HelloAnswered(p) ==
  /\ flow[p] = "hello"
  /\ reply[p] = "hello"
  /\ capable[Opponent(p)]
  /\ handshake' = [handshake EXCEPT ![p].our_hello_acknowledged = TRUE]
  /\ Walk(p, <<"config_exchange">>)
  /\ Send(p, "config_hash")
  /\ UNCHANGED <<parameters, turns>>

(* CONFIG_REJECTED, or an acceptance that names another hash than ours. *)
ConfigRefused(p) ==
  /\ flow[p] = "config_hash"
  /\ reply[p] # "none"
  /\ reply[p] = "config_rejected" \/ config_hash[Opponent(p)] # config_hash[p]
  /\ Fail(p)

ConfigAgreed(p) ==
  /\ flow[p] = "config_hash"
  /\ reply[p] = "config_accepted"
  /\ config_hash[Opponent(p)] = config_hash[p]
  /\ handshake' = [handshake EXCEPT ![p].our_config_accepted = TRUE]
  /\ Walk(p, <<"config_verified", "ready_wait">>)
  /\ Send(p, "ready")
  /\ UNCHANGED <<parameters, turns>>

ReadyAcknowledged_NoLook(p) ==
  /\ flow[p] = "ready"
  /\ reply[p] = "ack"
  /\ handshake' = [handshake EXCEPT ![p].we_sent_ready = TRUE]
  /\ Stay
  /\ Goto(p, "awaiting_ready")
  /\ NoSend(p)
  /\ UNCHANGED <<parameters, turns>>
ReadyAcknowledged(p) ==
  LET h == [handshake[p] EXCEPT !.we_sent_ready = TRUE]
  IN  /\ flow[p] = "ready"
      /\ reply[p] = "ack"
      /\ handshake' = [handshake EXCEPT ![p] = h]
      /\ MaybeBecomeReady(p, h)
      /\ Goto(p, "awaiting_ready")
      /\ NoSend(p)
      /\ UNCHANGED <<parameters, turns>>

(* An attempt ended without a reply: its request or its reply was lost, or  *)
(* the opponent's server is gone.                                           *)
AttemptFailed(p) ==
  /\ flow[p] \in Kind
  /\ call[p] > 0
  /\ reply[p] = "none"
  /\ faulty \/ Down(Opponent(p))

Retry(p) ==
  /\ AttemptFailed(p)
  /\ call[p] > 1
  /\ call' = [call EXCEPT ![p] = @ - 1]
  /\ requests' = requests \cup {[sender |-> p, kind |-> flow[p]]}
  /\ UNCHANGED <<parameters, machine, flow, handshake, reply, turns, refused>>

(* RetryLimitExceededError leaves perform_handshake and run_peer's try. *)
GiveUp(p) ==
  /\ AttemptFailed(p)
  /\ call[p] = 1
  /\ Goto(p, "leaving")
  /\ NoSend(p)
  /\ UNCHANGED <<parameters, machine, handshake, turns, refused>>

-----------------------------------------------------------------------------
(* await_ready, the turns, the wind-down. *)

(* await_ready saw READY, and the first turn may start. *)
StartPlaying(p) ==
  /\ flow[p] = "awaiting_ready"
  /\ machine[p] = "ready"
  /\ Goto(p, "turns")
  /\ UNCHANGED <<parameters, machine, handshake, call, reply, requests, turns,
                 refused>>

NeverReady_WaitsForever(p) == FALSE /\ UNCHANGED vars
NeverReady(p) ==
  /\ flow[p] = "awaiting_ready"
  /\ machine[p] # "ready"
  /\ faulty \/ Left(Opponent(p))
  /\ Goto(p, "leaving")
  /\ UNCHANGED <<parameters, machine, handshake, call, reply, requests, turns,
                 refused>>

(* play_turn up to its first await, between its two, and after the second. *)
SealAction(p) ==
  /\ flow[p] = "turns"
  /\ machine[p] \in {"ready", "turn_complete"}
  /\ turns[p] < MaxTurn
  /\ Walk(p, SubSeq(TurnOrder, 1, 3))
  /\ UNCHANGED <<parameters, flow, handshake, call, reply, requests, turns>>

(* The opponent's half of the turn: it has come as far, or beyond. *)
OpponentCommitted(p) ==
  LET q == Opponent(p)
  IN  turns[q] > turns[p]
        \/ (turns[q] = turns[p]
              /\ machine[q] \in TurnStates \ {"turn_complete"})

Reveal(p) ==
  /\ flow[p] = "turns"
  /\ machine[p] = "waiting_for_opponent_commit"
  /\ OpponentCommitted(p)
  /\ Walk(p, SubSeq(TurnOrder, 4, 7))
  /\ UNCHANGED <<parameters, flow, handshake, call, reply, requests, turns>>

OpponentRevealed(p) ==
  LET q == Opponent(p)
  IN  turns[q] > turns[p]
        \/ (turns[q] = turns[p] /\ machine[q] = "waiting_for_opponent_reveal")

CompleteTurn(p) ==
  /\ flow[p] = "turns"
  /\ machine[p] = "waiting_for_opponent_reveal"
  /\ OpponentRevealed(p)
  /\ Walk(p, SubSeq(TurnOrder, 8, 11))
  /\ turns' = [turns EXCEPT ![p] = @ + 1]
  /\ UNCHANGED <<parameters, flow, handshake, call, reply, requests>>

(* _fail_turn: the opponent's message did not come, or came wrong. *)
FailTurn(p) ==
  /\ flow[p] = "turns"
  /\ \/ /\ machine[p] = "waiting_for_opponent_commit"
        /\ faulty \/ (Left(Opponent(p)) /\ ~OpponentCommitted(p))
        /\ Walk(p, <<"turn_failed">>)
     \/ /\ machine[p] = "waiting_for_opponent_reveal"
        /\ faulty \/ (Left(Opponent(p)) /\ ~OpponentRevealed(p))
        /\ \/ Walk(p, <<"turn_failed">>)
           \/ Walk(p, SubSeq(TurnOrder, 8, 10) \o <<"turn_failed">>)
  /\ Goto(p, "leaving")
  /\ UNCHANGED <<parameters, handshake, call, reply, requests, turns>>

(* All turns were played, or none was asked for.  The mutual audit that     *)
(* follows is PeerTurn's.                                                   *)
MatchOver(p) ==
  /\ flow[p] = "turns"
  /\ machine[p] \in {"ready", "turn_complete"}
  /\ turns[p] = MaxTurn
  /\ Goto(p, "leaving")
  /\ UNCHANGED <<parameters, machine, handshake, call, reply, requests, turns,
                 refused>>

(* shutdown and server.stop.  A state that cannot reach FINISHING is left   *)
(* as it is: shutdown swallows that refusal.                                *)
Shutdown(p) ==
  /\ flow[p] = "leaving"
  /\ Goto(p, "gone")
  /\ LET walk == <<"finishing", "finished">>
     IN  machine' = [machine EXCEPT ![p] =
                       IF LegalFrom(@, walk) THEN "finished" ELSE @]
  /\ UNCHANGED <<parameters, handshake, call, reply, requests, turns, refused>>

(* The process is killed. *)
Crash(p) ==
  /\ faulty
  /\ ~Down(p)
  /\ Goto(p, "crashed")
  /\ UNCHANGED <<parameters, machine, handshake, call, reply, requests, turns,
                 refused>>

-----------------------------------------------------------------------------
Handshaking(p) ==
  \/ StartServer(p) \/ PeerReachable(p) \/ PeerUnreachable(p)
  \/ HelloRejected(p) \/ HelloAnswered(p)
  \/ ConfigRefused(p) \/ ConfigAgreed(p) \/ ReadyAcknowledged(p)
  \/ Retry(p) \/ GiveUp(p)

Playing(p) ==
  \/ StartPlaying(p) \/ NeverReady(p)
  \/ SealAction(p) \/ Reveal(p) \/ CompleteTurn(p) \/ FailTurn(p)
  \/ MatchOver(p) \/ Shutdown(p)

Receive(p) == \E m \in requests : Handle(p, m)

Next ==
  \E p \in Peer : Handshaking(p) \/ Playing(p) \/ Receive(p) \/ Crash(p)

(* A process runs what is ready, and a poll, a call and a wait end.         *)
(* A request to a server that is up is handled in the end; when requests    *)
(* may be lost, what bounds the wait is GiveUp instead.                     *)
Fairness == \A p \in Peer :
  /\ WF_vars(Handshaking(p))
  /\ WF_vars(Playing(p))
  /\ WF_vars(Receive(p))

Spec == Init /\ [][Next]_vars /\ Fairness

-----------------------------------------------------------------------------
Committed(p) == machine[p] = "ready" \/ machine[p] \in TurnStates

(* A peer that is ready or in a turn has an opponent that also verified the *)
(* handshake: both have the capabilities, both loaded the same              *)
(* configuration, and each has said so.  READY of a peer that is still      *)
(* verifying, or of one that is about to refuse, would break it.            *)
NoTurnBeforeBothVerified ==
  \A p \in Peer : Committed(p) =>
    /\ \A q \in Peer :
         /\ handshake[q].our_config_accepted
         /\ capable[q]
         /\ config_hash[q] = config_hash[Opponent(q)]
    /\ handshake[p].opponent_ready

(* The code never asks for a transition that the table refuses, whatever    *)
(* was lost and whoever left first, and it leaves in a terminal state.      *)
LifecycleSound ==
  /\ ~refused
  /\ \A p \in Peer : flow[p] = "gone" => machine[p] \in TERMINAL_STATES

(* Every process ends, whatever is lost and whoever is killed. *)
EveryPeerLeaves == \A p \in Peer : <>Down(p)

(* When nothing is lost, two peers that can play each other do: both finish *)
(* all the turns, whichever of the two READY messages comes first.          *)
PeersThatAgreePlay ==
  (/\ ~faulty
   /\ \A p \in Peer : capable[p] /\ config_hash[p] = config_hash[Opponent(p)])
    ~> \A p \in Peer : turns[p] = MaxTurn /\ machine[p] = "finished"
=============================================================================
