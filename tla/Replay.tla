------------------------------- MODULE Replay -------------------------------
(***************************************************************************)
(* The replay of a finished match (replay.verifier): from the two logs'    *)
(* sealed records it re-derives the game turn by turn, through the physics *)
(* of Board, and decides it.  The logs are honest here: PeerTurn shows     *)
(* that the records both peers hold are the ones that were sealed, so the  *)
(* hash, commitment and reveal comparisons that come first hold.           *)
(***************************************************************************)
EXTENDS CaptureClaim

VARIABLE replay \* _reconstruct: its locals and the verdict it ends with

vars == <<chosen, seen, state, believed, failed, claim, pending, replay>>

ReplayInit ==
  /\ ClaimInit
  /\ replay = [turn |-> 0, cop |-> InitialState("police"),
               thief |-> InitialState("thief"),
               terminal |-> "", verdict |-> "", accused |-> ""]

(* Both logs hold a final reveal: each peer finished every turn, or left    *)
(* its turn loop on a confirmed claim.                                      *)
LogsComplete ==
  /\ ~Unsettled
  /\ \A r \in Role : /\ ~failed[r]
                     /\ \/ Len(seen[r]) = MaxTurn
                        \/ pending[r] /\ Len(chosen[r]) = Len(seen[r])
Turns == Len(seen["police"])

Tampered(rp, who) == [rp EXCEPT !.verdict = "TAMPERED", !.accused = who]

(* Q-18: a move into this turn's barrier is replayed as standing still.     *)
Resolved(thief, b) == IF IsBlockedMove(thief, b) THEN StandStill ELSE b

(* The cop's own action spends its quota, the thief only hears of it. *)
ReplayedCop_Observed(cop, a) ==
  IF a.kind = "move" THEN Applied(cop, a) ELSE Observed(cop, a)
ReplayedCop(cop, a) == Applied(cop, a)

(* One turn of the reconstruction: the cop acts, the thief learns of the    *)
(* barrier and may be caught by it, then the thief acts.  A StandStill that *)
(* is refused too escapes the verifier as an exception.                     *)
ReplayedTurn(rp, a, b) ==
  LET cop == ReplayedCop(rp.cop, a)
      told == Observed(rp.thief, a)
      caught == BarrierCapture(a, told.position)
      resolved == Resolved(told, b)
      thief == Applied(told, resolved)
      t == rp.turn + 1
  IN  IF ~Legal(rp.cop, a) THEN Tampered(rp, "police")
      ELSE IF caught # ""
      THEN [rp EXCEPT !.turn = t, !.cop = cop, !.thief = told, !.terminal = caught]
      ELSE IF ~Legal(told, resolved)
      THEN IF IsBlockedMove(told, b) THEN [rp EXCEPT !.verdict = "raised"]
           ELSE Tampered(rp, "thief")
      ELSE [rp EXCEPT !.turn = t, !.cop = cop, !.thief = thief,
                      !.terminal = TurnTerminal(t, cop, thief)]

ReplayTurn ==
  /\ LogsComplete
  /\ replay.verdict = ""
  /\ replay.terminal = ""
  /\ replay.turn < Turns
  /\ replay' = ReplayedTurn(replay, chosen["police"][replay.turn + 1],
                                    chosen["thief"][replay.turn + 1])
  /\ UNCHANGED playVars

(* check_capture_claims: a claim and its answer against the terminal state. *)
Disputed ==
  LET holds == /\ replay.terminal = reason_for_claim_kind[claim.kind]
               /\ replay.turn = claim.turn
  IN  /\ claim.phase # "none"
      /\ CASE claim.verdict = "confirm" -> ~holds
           [] claim.verdict = "deny" -> holds
           [] OTHER -> claim.verdict = ""

(* The peers claim no result (close_sub_game is called without one), so a   *)
(* terminal state is the verdict unless a capture claim disagrees with it.  *)
ReplayDecides ==
  /\ LogsComplete
  /\ replay.verdict = ""
  /\ replay.terminal # "" \/ replay.turn = Turns
  /\ replay' = IF replay.terminal = ""
               THEN [replay EXCEPT !.verdict = "INCOMPLETE"]
               ELSE IF Disputed THEN Tampered(replay, "claim")
               ELSE [replay EXCEPT !.verdict = "VERIFIED_OK"]
  /\ UNCHANGED playVars

ReplayNext ==
  \/ ClaimNext /\ UNCHANGED replay
  \/ ReplayTurn
  \/ ReplayDecides

ReplaySpec == ReplayInit /\ [][ReplayNext]_vars
-----------------------------------------------------------------------------
Finished == replay.verdict \in {"VERIFIED_OK", "INCOMPLETE"}

(* The cop's moves replay exactly: it is never accused, and a replay that   *)
(* reaches the last turn ends with the cop, the barriers and the quota      *)
(* where the live cop left them.  The reconstruction always ends in a       *)
(* verdict: standing still is possible for every blocked thief that was not *)
(* caught, and the thief is never told of a barrier that its replayed board *)
(* already holds.  And, terminal.max_moves_reached, "survival fires first   *)
(* and this is unreachable in a valid configuration".                       *)
ReplayIsFaithful ==
  /\ replay.accused # "police"
  /\ replay.turn = Turns => replay.cop = state["police"]
  /\ replay.terminal # "max_moves_reached"
  /\ replay.verdict # "raised"
  /\ replay.terminal # "barrier_on_thief" =>
       /\ replay.thief.position \notin replay.thief.barriers
       /\ replay.thief.barriers = replay.cop.barriers

(* The cop tracks the replayed thief, not the live one: its dead reckoning  *)
(* resolves a blocked move the way the replay does.                         *)
CopTracksReplayedThief ==
  Finished /\ replay.turn = Turns /\ replay.terminal # "barrier_on_thief"
    => replay.thief.position = believed["police"]

(* The thief answers a claim from its live state, the replay judges the     *)
(* answer by its own.  They may differ only where the replayed game ended    *)
(* before, ended on another ground, or left the thief on another cell; an    *)
(* answer that asserts nothing is never held against it.                     *)
AnswersStandOtherwise ==
  replay.accused = "claim" =>
    /\ claim.verdict # "audit_required"
    /\ \/ replay.turn < claim.turn
       \/ replay.terminal \in {"barrier_on_thief", "cop_landed_on_thief"}
       \/ replay.thief.position # claim.cell

(* verifier.py: "An illegal action is proof the peer did not enforce the    *)
(* physics it agreed to".  So two peers that only ever play legal actions   *)
(* are never found TAMPERED.                                                *)
HonestMatchNotTampered == replay.accused \notin Role
=============================================================================
