------------------------- MODULE PeerTurnInvariant -------------------------
(* The inductive invariant of PeerTurn: what each peer's coordinator, its   *)
(* coroutine and the messages on the wire say about one another.            *)
EXTENDS PeerTurn

InTurn == {"waiting_for_opponent_commit", "waiting_for_opponent_reveal"}

(* A peer seals one record per turn, for itself, and keeps at most one      *)
(* record more than it has finished turns.                                  *)
SealedInOrder(r) ==
  /\ \A t \in DOMAIN sealed[r] : sealed[r][t].turn = t /\ sealed[r][t].role = r
  /\ Len(sealed[r]) \in {Len(completed[r]), Len(completed[r]) + 1}
  /\ pc[r] \in {"ready", "turn_complete", "final_reveal"}
       => Len(sealed[r]) = Len(completed[r])

(* The turn a coordinator holds is the one after its finished turns.        *)
CurrentIsNext(r, c) ==
  /\ c.turn = Len(completed[r]) + 1
  /\ c.localRecord # None =>
       HasSealed(r, c.turn) /\ c.localRecord = sealed[r][c.turn]
  /\ c.opponentCommitment # None => HoldsCommitmentOf(c, Opponent(r))
  /\ c.opponentReveal # None =>
       /\ HasSealed(Opponent(r), c.turn)
       /\ c.opponentReveal = RevealMapping(sealed[Opponent(r)][c.turn])
       /\ BothCommitted(c)
  /\ c.localRevealed => BothCommitted(c)

(* What the coroutine of r knows where it waits. *)
PhaseKnows(r) ==
  /\ pc[r] \in {"ready", "turn_complete"} /\ current[r] # None
       => current[r].localRecord = None
  /\ pc[r] \in InTurn => current[r] # None /\ current[r].localRecord # None
  /\ pc[r] = "waiting_for_opponent_commit" /\ waited[r] = "arrived"
       => RevealAllowed(r)
  /\ pc[r] = "waiting_for_opponent_reveal"
       => RevealAllowed(r) /\ current[r].localRevealed
  /\ pc[r] = "waiting_for_opponent_reveal" /\ waited[r] = "arrived"
       => current[r].opponentReveal # None

(* A finished turn holds the pair of moves that were sealed for it. *)
CompletedAgrees(r) ==
  \A t \in DOMAIN completed[r] :
    LET c == completed[r][t] IN
    /\ c.turn = t
    /\ c.localRecord # None
    /\ HoldsCommitmentOf(c, Opponent(r))
    /\ c.opponentReveal = RevealMapping(sealed[Opponent(r)][t])

(* A message of r tells what r sealed, and a reveal only after the opponent *)
(* sealed too.                                                              *)
IsHonest(r, m) ==
  /\ m.type \in {"commit", "reveal"} => HasSealed(r, m.turn)
  /\ m.type = "commit" => m.commitment = Commitment(sealed[r][m.turn])
  /\ m.type = "reveal" =>
       /\ m.sealed = RevealMapping(sealed[r][m.turn])
       /\ HasSealed(Opponent(r), m.turn)

MessagesHonest(r) ==
  /\ call[r] # None => IsHonest(r, call[r].msg)
  /\ \A req \in requests : req.sender = r => IsHonest(r, req.msg)
  /\ \A m \in pending[Opponent(r)] : IsHonest(r, m)

PeerInvariant(r) ==
  /\ SealedInOrder(r)
  /\ current[r] # None => CurrentIsNext(r, current[r])
  /\ PhaseKnows(r)
  /\ CompletedAgrees(r)
  /\ MessagesHonest(r)

(* Inductive: together with its type, what a peer holds of a turn is what   *)
(* the other peer sealed for that turn, at every point of the protocol.     *)
ProtocolInvariant == TypeOK /\ \A r \in Role : PeerInvariant(r)
-----------------------------------------------------------------------------
(* The final reveal: once a peer discloses, its turns are over. *)
Disclosing(r) ==
  /\ pc[r] \in {"final_reveal"} \cup Exited
  /\ Len(completed[r]) = MaxTurn

Discloses(r, m) ==
  m.type = "final_reveal" => Disclosing(r) /\ m.records = trail[r]

TrailMatchesSealed(r) == \A t \in DOMAIN trail[r] : trail[r][t] = sealed[r][t]

(* What r discloses is its trail, one record per finished turn, and an      *)
(* audit of it has compared every record with what r sealed.                *)
TrailInvariant(r) ==
  /\ Len(sealed[r]) <= MaxTurn
  /\ Len(trail[r]) = Len(completed[r])
  /\ \A t \in DOMAIN trail[r] : trail[r][t].turn = t
  /\ call[r] # None => Discloses(r, call[r].msg)
  /\ \A req \in requests : req.sender = r => Discloses(r, req.msg)
  /\ audited[Opponent(r)] => Disclosing(r) /\ TrailMatchesSealed(r)

-----------------------------------------------------------------------------
(* The one commitment that r sends for turn t. *)
CommitOf(r, t) == [type |-> "commit", turn |-> t,
                   commitment |-> Commitment(sealed[r][t])]

HeldForLater(r, m) ==
  /\ m.type = "commit"
  /\ m.turn > Len(sealed[r])
  /\ current[r] # None => m.turn > current[r].turn
  /\ m \in registry[r]

(* Every commitment r holds was answered ok and is in its registry, so one  *)
(* that is new belongs to a turn that r can still begin or hold back.       *)
CommitInvariant(r) ==
  /\ \A t \in DOMAIN completed[r] : CommitOf(Opponent(r), t) \in registry[r]
  /\ current[r] # None /\ current[r].opponentCommitment # None
       => CommitOf(Opponent(r), current[r].turn) \in registry[r]
  /\ \A m \in pending[r] : HeldForLater(r, m)
  /\ call[r] # None /\ call[r].msg.type = "commit"
       => call[r].status # "rejected" /\ reply[r] # "rejected"

(* Inductive: the whole match, from the first commitment to the audit.      *)
MatchInvariant ==
  /\ ProtocolInvariant
  /\ \A r \in Role : TrailInvariant(r) /\ CommitInvariant(r)
=============================================================================
