---------------------------- MODULE CaptureClaim ----------------------------
(***************************************************************************)
(* Live capture claims (E-21) over a match: between two turns the cop's    *)
(* caller may claim a capture, the thief answers from its own state, and   *)
(* a confirmed claim makes both stop playing.  run.py itself never claims;  *)
(* ClaimKinds is what a caller does claim, at most once in a match.         *)
(***************************************************************************)
EXTENDS LivePlay

CONSTANT ClaimKinds

CLAIM_KINDS == {"landed", "barrier_on_thief", "no_legal_move"}
ASSUME ClaimAssumption == ClaimKinds \subseteq CLAIM_KINDS

VARIABLES
  claim,  \* the claim and the answer as both logs hold them, and (history)
          \* where the thief was when it answered
  pending \* CLAIM_PENDING_AUDIT

claimVars == <<claim, pending>>
playVars == <<chosen, seen, state, believed, failed, claim, pending>>

reason_for_claim_kind ==
  [landed |-> "cop_landed_on_thief", barrier_on_thief |-> "barrier_on_thief",
   no_legal_move |-> "thief_has_no_legal_move"]

Unsettled == claim.phase \in {"sent", "answered"}

ClaimInit ==
  /\ Init
  /\ claim = [phase |-> "none", turn |-> 0, kind |-> "", verdict |-> "",
               cell |-> <<>>]
  /\ pending = [r \in Role |-> FALSE]

(* The turn loop stops on a confirmed claim; the cop's waits for the answer. *)
MayChoose_Forgetful(r) == r = "police" => ~Unsettled
MayChoose(r) == ~pending[r] /\ (r = "police" => ~Unsettled)

Play(r) ==
  /\ \/ MayChoose(r) /\ ChooseAction(r)
     \/ ApplyTurn(r)
     \/ OwnActionIllegal(r)
  /\ UNCHANGED claimVars

(* A turn whose opponent has stopped: its commitment never arrives. *)
OpponentStopped(r) ==
  LET o == Opponent(r)
  IN  /\ ~failed[r]
      /\ Len(chosen[r]) > Len(seen[r])
      /\ Len(chosen[o]) = Len(seen[r])
      /\ pending[o] \/ failed[o]
      /\ failed' = [failed EXCEPT ![r] = TRUE]
      /\ UNCHANGED <<chosen, seen, state, believed, claim, pending>>

(* claim_capture for the turn just completed: build_claim, then send. *)
ClaimCapture(kind) ==
  LET t == Len(seen["police"])
  IN  /\ claim.phase = "none"
      /\ ~failed["police"]
      /\ t > 0
      /\ Len(chosen["police"]) = t
      /\ claim' = [claim EXCEPT !.phase = "sent", !.turn = t, !.kind = kind]
      /\ UNCHANGED <<liveVars, pending>>

(* thief_truthful_verdict: from the thief's own state and the barrier the   *)
(* cop revealed last; a landed claim needs a cell the thief may not know.   *)
TruthfulVerdict_Guess ==
  LET s == state["thief"]
      theirs == chosen["police"][claim.turn]
      holds == CASE claim.kind = "landed" -> s.position = believed["thief"]
                 [] claim.kind = "barrier_on_thief" ->
                      BarrierCapture(theirs, s.position) # ""
                 [] OTHER -> IsTrapped(s)
  IN  IF claim.kind = "landed" /\ holds THEN "confirm" ELSE "deny"
TruthfulVerdict ==
  LET s == state["thief"]
      theirs == chosen["police"][claim.turn]
      holds == IF claim.kind = "barrier_on_thief"
               THEN BarrierCapture(theirs, s.position) # "" ELSE IsTrapped(s)
  IN  IF claim.kind = "landed" THEN "audit_required"
      ELSE IF holds THEN "confirm" ELSE "deny"

(* handle_claim, when the claim is for the turn the thief completed last.   *)
(* A copy of it finds the cached response and changes nothing.              *)
AnswerClaim ==
  /\ claim.phase = "sent"
  /\ claim.turn = Len(seen["thief"])
  /\ claim' = [claim EXCEPT !.phase = "answered", !.verdict = TruthfulVerdict,
                            !.cell = state["thief"].position]
  /\ pending' = [pending EXCEPT !["thief"] = TruthfulVerdict = "confirm"]
  /\ UNCHANGED liveVars

RecordResponse ==
  /\ claim.phase = "answered"
  /\ claim' = [claim EXCEPT !.phase = "recorded"]
  /\ pending' = [pending EXCEPT !["police"] = claim.verdict = "confirm"]
  /\ UNCHANGED liveVars

(* FutureTurnError: the thief has not completed the turn yet; or no reply   *)
(* after the retries.  claim_capture raises and the cop's match is over.    *)
ClaimFails ==
  /\ Unsettled
  /\ claim' = [claim EXCEPT !.phase = "failed"]
  /\ failed' = [failed EXCEPT !["police"] = TRUE]
  /\ UNCHANGED <<chosen, seen, state, believed, pending>>

ClaimNext ==
  \/ \E r \in Role : Play(r) \/ OpponentStopped(r)
  \/ \E kind \in ClaimKinds : ClaimCapture(kind)
  \/ AnswerClaim \/ RecordResponse \/ ClaimFails
-----------------------------------------------------------------------------
(* A confirmed claim freezes the match: from the thief's answer on neither  *)
(* peer applies another turn, though the thief may have sealed the next     *)
(* action already and the cop may not have heard the answer yet.            *)
ConfirmedClaimFreezes ==
  claim.verdict = "confirm" => \A r \in Role : Len(seen[r]) = claim.turn
=============================================================================
