-------------------------- MODULE ReplayInvariant --------------------------
(* The inductive invariant of Replay.  It follows the game that the two     *)
(* lists of chosen actions make: the cop as it really moved, and the thief  *)
(* where the cop's dead reckoning puts it.                                  *)
EXTENDS Replay, LivePlayInvariant

Opening == [cop |-> InitialState("police"), thief |-> ThiefStart]

(* A turn of the game: cop action a, thief action b. *)
PlayedOn(p, a, b) ==
  LET s == Applied(p.cop, a)
  IN  [cop |-> s, thief |-> Reckoned(s, p.thief, b)]

(* Path(c)[t]: the game after t turns of the actions c. *)
Path(c) ==
  LET p[t \in Nat] ==
        IF t = 0 THEN Opening
        ELSE PlayedOn(p[t - 1], c["police"][t], c["thief"][t])
  IN  p

(* The live cop stands where the path ends, and every action it took there  *)
(* was legal.                                                               *)
PathAgrees ==
  LET p == Path(chosen) IN
  /\ \A t \in 0 .. Turns : p[t] \in [cop : LocalState, thief : Cells]
  /\ \A t \in 1 .. Turns : Legal(p[t - 1].cop, chosen["police"][t])
  /\ p[Turns] = [cop |-> state["police"], thief |-> believed["police"]]

ClaimTyped ==
  /\ claim \in [phase : {"none", "sent", "answered", "recorded", "failed"},
                turn : Nat, kind : CLAIM_KINDS \cup {""},
                verdict : {"", "confirm", "deny", "audit_required"},
                cell : Cells \cup {<<>>}]
  /\ pending \in [Role -> BOOLEAN]

(* What the claim says of the thief's cell when it answered. *)
ClaimHolds ==
  IF claim.kind = "barrier_on_thief"
  THEN BarrierCapture(chosen["police"][claim.turn], claim.cell) # ""
  ELSE IsTrapped([position |-> claim.cell,
                  barriers |-> Path(chosen)[claim.turn].cop.barriers])

AnswerIsTruthful ==
  /\ claim.cell \in Cells
  /\ claim.verdict = IF claim.kind = "landed" THEN "audit_required"
                     ELSE IF ClaimHolds THEN "confirm" ELSE "deny"

(* While a claim is open the cop's caller waits for the answer; once it is  *)
(* confirmed the cop has no turn left to finish.                            *)
ClaimInvariant ==
  /\ claim.phase \in {"none", "sent"} => claim.verdict = ""
  /\ claim.phase \in {"answered", "recorded"} => claim.verdict # ""
  /\ claim.phase = "failed" => failed["police"]
  /\ claim.phase # "none" =>
       claim.kind \in CLAIM_KINDS /\ claim.turn \in 1 .. Turns
  /\ Unsettled => Turns = claim.turn /\ Len(chosen["police"]) = claim.turn
  /\ claim.verdict = "confirm" =>
       /\ Turns = claim.turn
       /\ Len(chosen["police"]) = claim.turn
       /\ Len(seen["thief"]) = claim.turn
       /\ Unsettled \/ pending["police"] \/ failed["police"]
  /\ claim.verdict # "" => AnswerIsTruthful

ReplayTyped ==
  replay \in [turn : 0 .. Turns, cop : LocalState, thief : LocalState,
              terminal : {"", "barrier_on_thief", "cop_landed_on_thief",
                          "thief_has_no_legal_move", "survival"},
              verdict : {"", "VERIFIED_OK", "INCOMPLETE", "TAMPERED"},
              accused : {"", "thief", "claim"}]

(* The reconstruction is on the path, up to a barrier that caught the thief *)
(* before it acted, and has not passed a terminal state by.                 *)
ReplayAgrees ==
  LET here == Path(chosen)[replay.turn] IN
  /\ replay.cop = here.cop
  /\ replay.terminal # "barrier_on_thief" =>
       /\ replay.thief.position = here.thief
       /\ replay.thief.barriers = here.cop.barriers
       /\ here.thief \notin here.cop.barriers
  /\ replay.terminal = "thief_has_no_legal_move" => IsTrapped(replay.thief)
  /\ replay.terminal = "survival" => ~IsTrapped(replay.thief)
  /\ replay.accused = "claim" =>
       claim.phase = "recorded" /\ replay.verdict = "TAMPERED"

(* Inductive. *)
ReplayInvariant ==
  /\ LiveInvariant
  /\ PathAgrees
  /\ ClaimTyped
  /\ ClaimInvariant
  /\ ReplayTyped
  /\ ReplayAgrees
  /\ AnswersStandOtherwise
=============================================================================
