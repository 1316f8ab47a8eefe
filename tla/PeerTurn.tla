------------------------------ MODULE PeerTurn ------------------------------
(***************************************************************************)
(* One match between the two peers: the commit-reveal turn that            *)
(* PeerOrchestrator.play_turn drives over CommitRevealCoordinator, the     *)
(* final reveal with its mutual audit that run._play_turns drives after    *)
(* the last turn, and the retrying call underneath both.                   *)
(*                                                                         *)
(* A peer is one asyncio event loop.  A handler (handle_message) contains  *)
(* no await, so it is one action.  play_turn suspends only where it waits  *)
(* for an inbound fact (_await_condition) or for its own send (_settle),   *)
(* so the code between two awaits is one action.                           *)
(*                                                                         *)
(* SHA-256 is ideal: Commitment is injective.  Position, hint and scent    *)
(* are left out: no step of this module reads them.                        *)
(***************************************************************************)
EXTENDS Naturals, Sequences, FiniteSets

CONSTANTS
  Action,        \* the moves a strategy can choose
  CorruptAction, \* the move that --tamper action writes over a sealed one
  MaxTurn,       \* --turns: how many turns the match plays
  MaxAttempts,   \* max_retries + 1: attempts one call makes
  QueueDepth,    \* queue_depth: capacity of the pending buffer
  TamperModes,   \* the --tamper choices of the match
  Faults,        \* what may go wrong: see FaultKinds
  None           \* Python's None

Role == {"police", "thief"}
Opponent(r) == IF r = "police" THEN "thief" ELSE "police"

(* "expiry": a deadline may pass at any time.  A request that is then never *)
(* delivered is a lost one, a delivered one whose reply came too late is a  *)
(* lost acknowledgement, and one delivered after its deadline is a stale    *)
(* duplicate of the retry.  "crash": a process may stop anywhere.           *)
(* "illegal_action": a configured strategy may choose a move that           *)
(* apply_action refuses.                                                    *)
FaultKinds == {"expiry", "crash", "illegal_action"}

ASSUME ConstantsAssumption ==
  /\ CorruptAction \in Action
  /\ MaxTurn \in Nat \ {0}
  /\ MaxAttempts \in Nat \ {0}
  /\ QueueDepth \in Nat \ {0}
  /\ TamperModes \subseteq {"none", "action", "nonce"}
  /\ Faults \subseteq FaultKinds

-----------------------------------------------------------------------------
(* Sealed records, digests and the messages that carry them. *)

SealedRecord == [turn : Nat, role : Role, action : Action,
                 nonce : {"issued", "forged"}]
Commitment(rec) == [digest |-> rec]
RevealMapping(rec) == [turn |-> rec.turn, role |-> rec.role,
                       action |-> rec.action]

Digest == [digest : SealedRecord]
Revealed == [turn : Nat, role : Role, action : Action]

CommitMessage == [type : {"commit"}, turn : Nat, commitment : Digest]
RevealMessage == [type : {"reveal"}, turn : Nat, sealed : Revealed]
FinalRevealMessage == [type : {"final_reveal"}, records : Seq(SealedRecord)]
TurnMessage == CommitMessage \cup RevealMessage
Message == TurnMessage \cup FinalRevealMessage

TurnCrypto == [turn : Nat,
               localRecord : SealedRecord \cup {None},
               opponentCommitment : Digest \cup {None},
               localRevealed : BOOLEAN,
               opponentReveal : Revealed \cup {None}]

Call == [msg : Message, attempt : 1..MaxAttempts,
         status : {"open", "ok", "rejected", "unacknowledged"}]

ASSUME NoneAssumption ==
  /\ None \notin SealedRecord
  /\ None \notin Digest
  /\ None \notin Revealed
  /\ None \notin TurnCrypto
  /\ None \notin Call
  /\ None \notin {"ok", "rejected"}

VARIABLES
  pc,        \* where the peer's coroutine is suspended, named after PeerState
  current,   \* CommitRevealCoordinator.current
  completed, \* completed_turns: its keys are 1..Len, in order
  sealed,    \* history: every record the peer ever sealed (LOCAL_COMMIT lines)
  trail,     \* audit_trail: its own records of the completed turns
  pending,   \* PendingTurnBuffer
  registry,  \* MessageRegistry: the messages answered ok (one id per message)
  waited,    \* _await_condition: "waiting", "arrived" or "expired"
  call,      \* the outbound send in progress
  reply,     \* the reply on its way to that send
  audited,   \* opponent_audit_received
  serving,   \* is the peer's server up
  requests   \* requests on the wire

coordinatorVars == <<current, completed, sealed, trail>>
inboxVars == <<pending, registry>>
callVars == <<waited, call, reply>>
vars == <<pc, current, completed, sealed, trail, pending, registry, waited,
          call, reply, audited, serving, requests>>

Waits == {"waiting_for_opponent_commit", "waiting_for_opponent_reveal",
          "final_reveal"}
Exited == {"exit_ok", "exit_failed", "crashed"}
PC == {"ready", "turn_complete"} \cup Waits \cup Exited

Request == [sender : Role, msg : Message, attempt : 1..MaxAttempts]

(* Every variable has its type. *)
TypeOK ==
  /\ pc \in [Role -> PC]
  /\ current \in [Role -> TurnCrypto \cup {None}]
  /\ completed \in [Role -> Seq(TurnCrypto)]
  /\ sealed \in [Role -> Seq(SealedRecord)]
  /\ trail \in [Role -> Seq(SealedRecord)]
  /\ pending \in [Role -> SUBSET TurnMessage]
  /\ registry \in [Role -> SUBSET Message]
  /\ waited \in [Role -> {"waiting", "arrived", "expired"}]
  /\ call \in [Role -> Call \cup {None}]
  /\ reply \in [Role -> {None, "ok", "rejected"}]
  /\ audited \in [Role -> BOOLEAN]
  /\ serving \in [Role -> BOOLEAN]
  /\ requests \subseteq Request

(* Both peers have shaken hands and neither has started its first turn. *)
Init ==
  /\ pc = [r \in Role |-> "ready"]
  /\ current = [r \in Role |-> None]
  /\ completed = [r \in Role |-> <<>>]
  /\ sealed = [r \in Role |-> <<>>]
  /\ trail = [r \in Role |-> <<>>]
  /\ pending = [r \in Role |-> {}]
  /\ registry = [r \in Role |-> {}]
  /\ waited = [r \in Role |-> "waiting"]
  /\ call = [r \in Role |-> None]
  /\ reply = [r \in Role |-> None]
  /\ audited = [r \in Role |-> FALSE]
  /\ serving = [r \in Role |-> TRUE]
  /\ requests = {}

-----------------------------------------------------------------------------
(* CommitRevealCoordinator: what it accepts, and the turn it then holds. *)

OpenTurn(t) == [turn |-> t, localRecord |-> None, opponentCommitment |-> None,
                localRevealed |-> FALSE, opponentReveal |-> None]

CanBegin(r, t) ==
  /\ t > Len(completed[r])
  /\ current[r] # None => current[r].turn = t

BeginTurn(r, t) == IF current[r] = None THEN OpenTurn(t) ELSE current[r]

BothCommitted(c) == c.localRecord # None /\ c.opponentCommitment # None

RevealAllowed_LocalOnly(r) == current[r] # None /\ current[r].localRecord # None
RevealAllowed(r) == current[r] # None /\ BothCommitted(current[r])

CommitAccepted(r, m) ==
  /\ CanBegin(r, m.turn)
  /\ BeginTurn(r, m.turn).opponentCommitment \in {None, m.commitment}

RevealAccepted(r, m) ==
  /\ current[r] # None
  /\ m.turn = current[r].turn
  /\ BothCommitted(current[r])
  /\ m.sealed.turn = m.turn
  /\ m.sealed.role = Opponent(r)
  /\ current[r].opponentReveal \in {None, m.sealed}

VerifyRecord_NoHash(r, rec) ==
  /\ rec.turn \in DOMAIN completed[r]
  /\ rec.role = Opponent(r)
  /\ RevealMapping(rec) = completed[r][rec.turn].opponentReveal

VerifyRecord(r, rec) ==
  /\ rec.turn \in DOMAIN completed[r]
  /\ rec.role = Opponent(r)
  /\ RevealMapping(rec) = completed[r][rec.turn].opponentReveal
  /\ Commitment(rec) = completed[r][rec.turn].opponentCommitment

FinalRevealAccepted(r, m) ==
  \A i \in DOMAIN m.records : VerifyRecord(r, m.records[i])

-----------------------------------------------------------------------------
(* PeerOrchestrator: messages of a turn that has not begun are held back. *)

ExpectedTurn(r) ==
  IF current[r] # None THEN current[r].turn ELSE Len(completed[r]) + 1

Early(r, m) == m.turn > ExpectedTurn(r)

BufferAccepted_NoneAhead(r, m) == m.turn <= ExpectedTurn(r)

BufferAccepted(r, m) ==
  /\ m.turn <= ExpectedTurn(r) + 1
  /\ m \in pending[r] \/ Cardinality(pending[r]) < QueueDepth

Accepted(r, m) ==
  \/ m.type = "final_reveal" /\ FinalRevealAccepted(r, m)
  \/ /\ m.type # "final_reveal"
     /\ IF Early(r, m) THEN BufferAccepted(r, m)
        ELSE IF m.type = "commit" THEN CommitAccepted(r, m)
        ELSE RevealAccepted(r, m)

(* What a drained buffer leaves: the commitment held for turn t.  A held    *)
(* reveal would raise RevealNotAllowedError, since the drain runs before    *)
(* seal; CommitNeverRejected says that none is ever held.                  *)
Held_Forgotten(r, t) == {m \in pending[r] : m.turn = t /\ m.turn = 1}
Held(r, t) == {m \in pending[r] : m.turn = t}
Drained(r, t) ==
  LET commits == {m \in Held(r, t) : m.type = "commit"}
  IN  IF commits = {} THEN BeginTurn(r, t)
      ELSE [BeginTurn(r, t) EXCEPT !.opponentCommitment =
              (CHOOSE m \in commits : TRUE).commitment]

-----------------------------------------------------------------------------
(* PeerClient.send: one call, retried under the same message id. *)

(* A server that is down refuses the connection. *)
Attempt(r, m, n) ==
  requests' = IF serving[Opponent(r)]
              THEN requests \cup {[sender |-> r, msg |-> m, attempt |-> n]}
              ELSE requests

StartCall(r, m) ==
  /\ call' = [call EXCEPT ![r] = [msg |-> m, attempt |-> 1, status |-> "open"]]
  /\ reply' = [reply EXCEPT ![r] = None]
  /\ Attempt(r, m, 1)

IsOpen(r) == call[r] # None /\ call[r].status = "open"
IsSettled(r) == call[r] # None /\ call[r].status # "open"

(* The reply reaches the attempt that waits for it: ok:false is an answer,  *)
(* not a failure, and is never retried.                                     *)
ReceiveReply(r) ==
  /\ pc[r] \notin Exited
  /\ IsOpen(r)
  /\ reply[r] # None
  /\ call' = [call EXCEPT ![r].status = reply[r]]
  /\ reply' = [reply EXCEPT ![r] = None]
  /\ UNCHANGED <<pc, coordinatorVars, inboxVars, waited, audited, serving,
                 requests>>

IsLastAttempt_OneMore(r) == call[r].attempt > MaxAttempts
IsLastAttempt(r) == call[r].attempt >= MaxAttempts

(* response_timeout_sec passes, or the connection is refused: try again     *)
(* with the same message, or give up after the last attempt.                *)
AttemptFails(r) ==
  /\ pc[r] \notin Exited
  /\ IsOpen(r)
  /\ "expiry" \in Faults \/ ~serving[Opponent(r)]
  /\ reply' = [reply EXCEPT ![r] = None]
  /\ IF IsLastAttempt(r)
     THEN /\ call' = [call EXCEPT ![r].status = "unacknowledged"]
          /\ UNCHANGED requests
     ELSE /\ call' = [call EXCEPT ![r].attempt = @ + 1]
          /\ Attempt(r, call[r].msg, call[r].attempt + 1)
  /\ UNCHANGED <<pc, coordinatorVars, inboxVars, waited, audited, serving>>

-----------------------------------------------------------------------------
(* handle_message: one action per outcome. *)

Arrives(r, req) ==
  /\ serving[r]
  /\ req \in requests
  /\ req.sender = Opponent(r)
  /\ requests' = requests \ {req}

(* The answer is heard only by the attempt that asked, while it waits. *)
Answer(req, verdict) ==
  LET s == req.sender
      awaited == /\ IsOpen(s)
                 /\ call[s].msg = req.msg
                 /\ call[s].attempt = req.attempt
  IN  reply' = IF awaited THEN [reply EXCEPT ![s] = verdict] ELSE reply

Register(r, m) == registry' = [registry EXCEPT ![r] = @ \cup {m}]

(* An exact repeat of an answered message gets the recorded answer. *)
SuppressDuplicate(r, req) ==
  /\ Arrives(r, req)
  /\ req.msg \in registry[r]
  /\ Answer(req, "ok")
  /\ UNCHANGED <<pc, coordinatorVars, inboxVars, waited, call, audited, serving>>

IsNew(r, req) == req.msg \notin registry[r]

BufferIfEarly(r, req) ==
  /\ Arrives(r, req)
  /\ IsNew(r, req)
  /\ req.msg.type # "final_reveal"
  /\ Early(r, req.msg)
  /\ BufferAccepted(r, req.msg)
  /\ pending' = [pending EXCEPT ![r] = @ \cup {req.msg}]
  /\ Register(r, req.msg)
  /\ Answer(req, "ok")
  /\ UNCHANGED <<pc, coordinatorVars, waited, call, audited, serving>>

OnCommit(r, req) ==
  /\ Arrives(r, req)
  /\ IsNew(r, req)
  /\ req.msg.type = "commit"
  /\ ~Early(r, req.msg)
  /\ CommitAccepted(r, req.msg)
  /\ current' = [current EXCEPT ![r] =
       [BeginTurn(r, req.msg.turn) EXCEPT
          !.opponentCommitment = req.msg.commitment]]
  /\ Register(r, req.msg)
  /\ Answer(req, "ok")
  /\ UNCHANGED <<pc, completed, sealed, trail, pending, waited, call, audited,
                 serving>>

OnReveal(r, req) ==
  /\ Arrives(r, req)
  /\ IsNew(r, req)
  /\ req.msg.type = "reveal"
  /\ ~Early(r, req.msg)
  /\ RevealAccepted(r, req.msg)
  /\ current' = [current EXCEPT ![r].opponentReveal = req.msg.sealed]
  /\ Register(r, req.msg)
  /\ Answer(req, "ok")
  /\ UNCHANGED <<pc, completed, sealed, trail, pending, waited, call, audited,
                 serving>>

OnFinalReveal(r, req) ==
  /\ Arrives(r, req)
  /\ IsNew(r, req)
  /\ req.msg.type = "final_reveal"
  /\ FinalRevealAccepted(r, req.msg)
  /\ audited' = [audited EXCEPT ![r] = TRUE]
  /\ Register(r, req.msg)
  /\ Answer(req, "ok")
  /\ UNCHANGED <<pc, coordinatorVars, pending, waited, call, serving>>

(* Any of the coordinator's or the buffer's exceptions: ok:false, nothing   *)
(* recorded, not even in the registry.                                      *)
Reject(r, req) ==
  /\ Arrives(r, req)
  /\ IsNew(r, req)
  /\ ~Accepted(r, req.msg)
  /\ Answer(req, "rejected")
  /\ UNCHANGED <<pc, coordinatorVars, inboxVars, waited, call, audited, serving>>

Handle(r, req) ==
  \/ SuppressDuplicate(r, req)
  \/ BufferIfEarly(r, req)
  \/ OnCommit(r, req)
  \/ OnReveal(r, req)
  \/ OnFinalReveal(r, req)
  \/ Reject(r, req)

-----------------------------------------------------------------------------
(* play_turn. *)

(* From the loop head to the first await: drain, seal, send COMMIT. *)
StartTurn(r, a) ==
  LET t == Len(completed[r]) + 1
      rec == [turn |-> t, role |-> r, action |-> a, nonce |-> "issued"]
  IN  /\ pc[r] \in {"ready", "turn_complete"}
      /\ t <= MaxTurn
      /\ current' = [current EXCEPT ![r] =
                       [Drained(r, t) EXCEPT !.localRecord = rec]]
      /\ sealed' = [sealed EXCEPT ![r] = Append(@, rec)]
      /\ pending' = [pending EXCEPT ![r] = @ \ Held(r, t)]
      /\ StartCall(r, [type |-> "commit", turn |-> t,
                       commitment |-> Commitment(rec)])
      /\ pc' = [pc EXCEPT ![r] = "waiting_for_opponent_commit"]
      /\ waited' = [waited EXCEPT ![r] = "waiting"]
      /\ UNCHANGED <<completed, trail, registry, audited, serving>>

(* What each _await_condition polls for. *)
Condition(r) ==
  \/ pc[r] = "waiting_for_opponent_commit" /\ RevealAllowed(r)
  \/ /\ pc[r] = "waiting_for_opponent_reveal"
     /\ current[r] # None
     /\ current[r].opponentReveal # None
  \/ pc[r] = "final_reveal" /\ audited[r]

ConditionHolds(r) ==
  /\ pc[r] \in Waits
  /\ waited[r] = "waiting"
  /\ Condition(r)
  /\ waited' = [waited EXCEPT ![r] = "arrived"]
  /\ UNCHANGED <<pc, coordinatorVars, inboxVars, call, reply, audited, serving,
                 requests>>

(* Nothing more can come: the opponent stopped and its messages are gone. *)
OpponentIsSilent(r) ==
  /\ pc[Opponent(r)] \in Exited
  /\ \A req \in requests : req.sender # Opponent(r)

ConditionExpires_Never(r) == FALSE /\ r \in Role

ConditionExpires(r) ==
  /\ pc[r] \in Waits
  /\ waited[r] = "waiting"
  /\ ~Condition(r)
  /\ "expiry" \in Faults \/ OpponentIsSilent(r)
  /\ waited' = [waited EXCEPT ![r] = "expired"]
  /\ UNCHANGED <<pc, coordinatorVars, inboxVars, call, reply, audited, serving,
                 requests>>

(* _await_condition has returned and _settle has collected the send. *)
Settled(r, state) ==
  /\ pc[r] = state
  /\ waited[r] # "waiting"
  /\ IsSettled(r)

CommitPhaseFails(r) ==
  \/ call[r].status = "rejected"
  \/ waited[r] = "expired" /\ ~RevealAllowed(r)

RevealPhaseFails_IgnoresExpiry(r) == call[r].status = "rejected"

RevealPhaseFails(r) ==
  \/ call[r].status = "rejected"
  \/ waited[r] = "expired"

(* The locals of the finished wait are gone. *)
LeaveWait(r) ==
  /\ call' = [call EXCEPT ![r] = None]
  /\ waited' = [waited EXCEPT ![r] = "waiting"]

(* _fail_turn: abandon the turn, drop the buffer, leave the turn loop. *)
FailTurn(r) ==
  /\ current' = [current EXCEPT ![r] = None]
  /\ pending' = [pending EXCEPT ![r] = {}]
  /\ pc' = [pc EXCEPT ![r] = "exit_failed"]
  /\ LeaveWait(r)
  /\ UNCHANGED <<completed, sealed, trail, registry, reply, audited, serving,
                 requests>>

FailCommitPhase(r) ==
  /\ Settled(r, "waiting_for_opponent_commit")
  /\ CommitPhaseFails(r)
  /\ FailTurn(r)

FailRevealPhase(r) ==
  /\ Settled(r, "waiting_for_opponent_reveal")
  /\ RevealPhaseFails(r)
  /\ FailTurn(r)

(* Both committed: reveal_payload, then send REVEAL. *)
SendReveal(r) ==
  /\ Settled(r, "waiting_for_opponent_commit")
  /\ ~CommitPhaseFails(r)
  /\ current' = [current EXCEPT ![r].localRevealed = TRUE]
  /\ StartCall(r, [type |-> "reveal", turn |-> current[r].turn,
                   sealed |-> RevealMapping(current[r].localRecord)])
  /\ pc' = [pc EXCEPT ![r] = "waiting_for_opponent_reveal"]
  /\ waited' = [waited EXCEPT ![r] = "waiting"]
  /\ UNCHANGED <<completed, sealed, trail, inboxVars, audited, serving>>

(* Both revealed: apply both moves and finish_turn. *)
FinishTurn_NoReset(r) ==
  /\ Settled(r, "waiting_for_opponent_reveal")
  /\ ~RevealPhaseFails(r)
  /\ completed' = [completed EXCEPT ![r] = Append(@, current[r])]
  /\ trail' = [trail EXCEPT ![r] = Append(@, current[r].localRecord)]
  /\ current' = [current EXCEPT ![r].turn = @ + 1]
  /\ pc' = [pc EXCEPT ![r] = "turn_complete"]
  /\ LeaveWait(r)
  /\ UNCHANGED <<sealed, inboxVars, reply, audited, serving, requests>>

FinishTurn(r) ==
  /\ Settled(r, "waiting_for_opponent_reveal")
  /\ ~RevealPhaseFails(r)
  /\ completed' = [completed EXCEPT ![r] = Append(@, current[r])]
  /\ trail' = [trail EXCEPT ![r] = Append(@, current[r].localRecord)]
  /\ current' = [current EXCEPT ![r] = None]
  /\ pc' = [pc EXCEPT ![r] = "turn_complete"]
  /\ LeaveWait(r)
  /\ UNCHANGED <<sealed, inboxVars, reply, audited, serving, requests>>

(* apply_action refuses the peer's own revealed move. *)
OwnActionIllegal(r) ==
  /\ "illegal_action" \in Faults
  /\ Settled(r, "waiting_for_opponent_reveal")
  /\ ~RevealPhaseFails(r)
  /\ FailTurn(r)

-----------------------------------------------------------------------------
(* After the last turn: final reveal, mutual audit, exit. *)

CorruptedRecord(rec, mode) ==
  IF mode = "action" THEN [rec EXCEPT !.action = CorruptAction]
                     ELSE [rec EXCEPT !.nonce = "forged"]

Corrupted(records, mode) ==
  IF records = <<>> \/ mode = "none" THEN records
  ELSE [records EXCEPT ![1] = CorruptedRecord(@, mode)]

SendFinalReveal_OneTurnEarly(r, mode) ==
  /\ pc[r] = "turn_complete"
  /\ Len(completed[r]) + 1 >= MaxTurn
  /\ trail' = [trail EXCEPT ![r] = Corrupted(@, mode)]
  /\ StartCall(r, [type |-> "final_reveal",
                   records |-> Corrupted(trail[r], mode)])
  /\ pc' = [pc EXCEPT ![r] = "final_reveal"]
  /\ waited' = [waited EXCEPT ![r] = "waiting"]
  /\ UNCHANGED <<current, completed, sealed, inboxVars, audited, serving>>

SendFinalReveal(r, mode) ==
  /\ pc[r] = "turn_complete"
  /\ Len(completed[r]) = MaxTurn
  /\ trail' = [trail EXCEPT ![r] = Corrupted(@, mode)]
  /\ StartCall(r, [type |-> "final_reveal",
                   records |-> Corrupted(trail[r], mode)])
  /\ pc' = [pc EXCEPT ![r] = "final_reveal"]
  /\ waited' = [waited EXCEPT ![r] = "waiting"]
  /\ UNCHANGED <<current, completed, sealed, inboxVars, audited, serving>>

(* A rejected reveal fails the match, a lost acknowledgement does not. *)
MatchOk(r) == call[r].status # "rejected" /\ waited[r] = "arrived"

EndMatch(r) ==
  /\ Settled(r, "final_reveal")
  /\ pc' = [pc EXCEPT ![r] = IF MatchOk(r) THEN "exit_ok" ELSE "exit_failed"]
  /\ LeaveWait(r)
  /\ UNCHANGED <<coordinatorVars, inboxVars, reply, audited, serving, requests>>

(* The server is gone, and with it the requests on their way to it. *)
StopServing(r) ==
  /\ serving' = [serving EXCEPT ![r] = FALSE]
  /\ requests' = {req \in requests : req.sender = r}

(* run_peer's finally: drop the buffer and stop the server. *)
Shutdown(r) ==
  /\ pc[r] \in {"exit_ok", "exit_failed"}
  /\ serving[r]
  /\ StopServing(r)
  /\ pending' = [pending EXCEPT ![r] = {}]
  /\ UNCHANGED <<pc, coordinatorVars, registry, callVars, audited>>

Crash(r) ==
  /\ "crash" \in Faults
  /\ pc[r] \notin Exited
  /\ pc' = [pc EXCEPT ![r] = "crashed"]
  /\ StopServing(r)
  /\ UNCHANGED <<coordinatorVars, inboxVars, callVars, audited>>

-----------------------------------------------------------------------------
(* The steps of r's own coroutine. *)
LocalStep(r) ==
  \/ \E a \in Action : StartTurn(r, a)
  \/ ConditionHolds(r)
  \/ ConditionExpires(r)
  \/ ReceiveReply(r)
  \/ AttemptFails(r)
  \/ FailCommitPhase(r)
  \/ FailRevealPhase(r)
  \/ SendReveal(r)
  \/ FinishTurn(r)
  \/ OwnActionIllegal(r)
  \/ \E mode \in TamperModes : SendFinalReveal(r, mode)
  \/ EndMatch(r)
  \/ Shutdown(r)

Delivery(r) == \E req \in requests : Handle(r, req)

Next == \E r \in Role : LocalStep(r) \/ Delivery(r) \/ Crash(r)

Spec == Init /\ [][Next]_vars

(* The event loop always runs a ready coroutine, and every wait is bounded. *)
LocalFairness == \A r \in Role : WF_vars(LocalStep(r))
(* A request sent to a server that is up is eventually handled. *)
DeliveryFairness == \A r \in Role : WF_vars(Delivery(r))

BoundedWaitSpec == Spec /\ LocalFairness
FairSpec == Spec /\ LocalFairness /\ DeliveryFairness
-----------------------------------------------------------------------------
(* Safety. *)

HasSealed(r, t) == t \in DOMAIN sealed[r]
HoldsCommitmentOf(c, r) ==
  HasSealed(r, c.turn) /\ c.opponentCommitment = Commitment(sealed[r][c.turn])

(* No free look: whoever has revealed its move of a turn holds the          *)
(* commitment of a move the opponent had already sealed for that turn, so   *)
(* neither can choose after seeing the other (reveal_payload's guard).      *)
NoFreeLook ==
  \A r \in Role :
    /\ current[r] # None /\ current[r].localRevealed
         => HoldsCommitmentOf(current[r], Opponent(r))
    /\ \A req \in requests :
         req.sender = r /\ req.msg.type = "reveal"
           => HasSealed(Opponent(r), req.msg.turn)

(* The move a peer records for a finished turn is the one its opponent      *)
(* sealed in that very turn, under the commitment it sent for it: late      *)
(* duplicates and buffered messages never mix two turns up.                 *)
MovesAgree ==
  \A r \in Role : \A t \in DOMAIN completed[r] :
    LET c == completed[r][t] IN
    /\ c.turn = t
    /\ HoldsCommitmentOf(c, Opponent(r))
    /\ c.opponentReveal = RevealMapping(sealed[Opponent(r)][t])

(* Neither peer is ever more than one finished turn ahead of the other.     *)
LockStep ==
  \A r \in Role : Len(completed[r]) <= Len(completed[Opponent(r)]) + 1

(* An honest commitment is never refused, whichever peer is ahead and       *)
(* whatever was lost, repeated or late (the race _buffer_if_early closes).  *)
(* And, what _drain_pending relies on, all that is ever held back is the    *)
(* single commitment of the next turn: the drain runs before seal, so a     *)
(* reveal held back would be refused there and end the turn loop.           *)
CommitNeverRejected ==
  \A r \in Role :
    /\ call[r] # None /\ call[r].msg.type = "commit" => call[r].status # "rejected"
    /\ \A m \in pending[r] :
         /\ m.type = "commit"
         /\ \A other \in pending[r] : other = m
         /\ current[r] # None => m.turn > current[r].turn

(* A peer whose records passed the opponent's audit has disclosed, for      *)
(* every finished turn, exactly what it sealed.                             *)
AuditMeansUntampered ==
  \A r \in Role : audited[r] =>
    LET o == Opponent(r) IN
    \A t \in DOMAIN trail[o] : trail[o][t] = sealed[o][t]

(* Nonces leave a peer only when the opponent has no move left to choose.   *)
DisclosureAfterLastSeal ==
  \A r \in Role :
    call[r] # None /\ call[r].msg.type = "final_reveal"
      => Len(sealed[Opponent(r)]) = MaxTurn

(* run.py: "A rejection, by contrast, is a real mismatch and must fail."    *)
(* A refused final reveal is one that differs from what was sealed.         *)
RejectionIsRealMismatch ==
  \A r \in Role :
    call[r] # None /\ call[r].msg.type = "final_reveal"
                  /\ call[r].status = "rejected"
      => \E t \in DOMAIN trail[r] : trail[r][t] # sealed[r][t]

-----------------------------------------------------------------------------
(* Liveness. *)

(* Whatever is lost, late or crashed, a peer never waits forever: it ends   *)
(* the match or leaves it (_await_condition and RetryPolicy are bounded).   *)
EveryPeerStops == \A r \in Role : <>(pc[r] \in Exited)

(* Without faults both peers finish every turn: sending while waiting, and  *)
(* holding early messages back, leaves no interleaving that blocks a turn.  *)
AllTurnsPlayed == \A r \in Role : <>(Len(completed[r]) = MaxTurn)
-----------------------------------------------------------------------------
(* The turn implements the simultaneous-move game. *)

chosenMoves ==
  [r \in Role |-> [t \in DOMAIN sealed[r] |-> sealed[r][t].action]]
seenMoves ==
  [r \in Role |-> [t \in DOMAIN completed[r] |->
                    completed[r][t].opponentReveal.action]]

Game == INSTANCE SimultaneousMove
          WITH Player <- Role, chosen <- chosenMoves, seen <- seenMoves

(* Every behaviour of the two peers, faults included, is one of the game:   *)
(* a peer acts on its opponent's move of a turn only after both have bound  *)
(* themselves, and the move it acts on is the one that was bound.           *)
ImplementsGame == Game!Spec
=============================================================================
