------------------------- MODULE SubGameV3Invariant -------------------------
(* The inductive invariant of SubGameV3 where no reply is lost, so that no  *)
(* message is delivered twice: whose half-turn it is, and what the message  *)
(* still unread says of its sender.                                         *)
EXTENDS SubGameV3

Thief == session["thief"]
Cop == session["police"]

(* GameSessionV3, its inbox with nothing kept ahead. *)
InboxInOrder(in) ==
  /\ in = [next |-> in.next, played |-> in.played, buffered |-> in.buffered]
  /\ in.next \in Nat \ {0}
  /\ DOMAIN in.played = 1 .. in.next - 1
  /\ DOMAIN in.buffered = {}
IsSession(r, s) ==
  /\ s = [local |-> s.local, step |-> s.step, inbox |-> s.inbox,
          answer |-> s.answer, outcome |-> s.outcome]
  /\ s.local \in LocalState
  /\ s.local.role = r
  /\ s.step \in Nat
  /\ InboxInOrder(s.inbox)
  /\ s.answer \in Answers
  /\ s.outcome \in Outcomes

Typed ==
  /\ DOMAIN session = Role /\ \A r \in Role : IsSession(r, session[r])
  /\ queue \in [Role -> Seq(TurnMessages)]
  /\ call \in [Role -> [message : SUBSET TurnMessages, attempt : 0 .. 2,
                        arrived : BOOLEAN]]
  /\ pc \in [Role -> Places]
  /\ drops \in 0 .. MaxDrops

(* The steps each has taken and the messages each has applied. *)
InStep ==
  /\ Thief.step \in {Cop.step, Cop.step + 1}
  /\ Cop.step < SurvivalThreshold /\ Thief.step <= SurvivalThreshold
  /\ Thief.outcome = "" /\ pc["thief"] # "failed" => Thief.step < SurvivalThreshold
  /\ Thief.inbox.next = IF pc["thief"] = "opening" THEN 1 ELSE Thief.step
  /\ pc["thief"] = "opening" => Thief.step = 0
  /\ Cop.inbox.next = IF Cop.outcome = "" THEN Cop.step + 1 ELSE Cop.step + 2
  /\ Thief.step = Cop.step => Cop.outcome = ""

(* Where play_to_outcome is, and what has been decided there. *)
Decided ==
  /\ pc["police"] # "opening"
  /\ \A r \in Role :
       /\ pc[r] \in {"opening", "waiting"} => session[r].outcome = ""
       /\ pc[r] = "settled" => session[r].outcome # ""
  /\ pc["thief"] = "opening" => Thief.answer = ""
  /\ pc["police"] = "sending" => Cop.outcome = ""
  /\ Cop.answer = ""
  /\ Cop.outcome # "" => Cop.outcome = Thief.outcome

(* On the thief's half-turn it still has to hear of the cop's last barrier. *)
BoardsMeet ==
  Thief.step # Cop.step \/ pc["thief"] = "opening"
    => Thief.local.barriers = Cop.local.barriers

(* What the last message of r says while the opponent has not applied it. *)
Unread(r) == session[Opponent(r)].inbox.next = session[r].step
Says(r, m) ==
  /\ m.step = session[r].step
  /\ r = "thief" =>
       /\ m.barrier = {} /\ m.claim = {}
       /\ m.win <=> Thief.outcome = "survival"
       /\ m.answer = "caught" <=> Thief.outcome = "capture"
       /\ Thief.outcome = "" => Thief.step < SurvivalThreshold
  /\ r = "police" =>
       /\ m.claim = {Cop.local.position} /\ m.answer = "" /\ ~m.win
       /\ Cop.local.barriers = Thief.local.barriers \cup m.barrier
       /\ Cop.outcome = ""

(* A message is in one place: with the caller, or on the opponent's queue.  *)
Posted(r) ==
  LET q == queue[Opponent(r)] IN
  /\ pc[r] = "sending" /\ ~call[r].arrived =>
       q = <<>> /\ Unread(r) /\ \A m \in call[r].message : Says(r, m)
  /\ q # <<>> => Len(q) = 1 /\ Unread(r) /\ Says(r, q[1])

SubGameInvariant ==
  /\ Typed
  /\ InStep
  /\ Decided
  /\ BoardsMeet
  /\ CaptureIsReal
  /\ \A r \in Role : Posted(r)
=============================================================================
