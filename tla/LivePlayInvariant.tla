------------------------- MODULE LivePlayInvariant -------------------------
(* The inductive invariant of LivePlay: how far apart the two peers' turns  *)
(* and boards may be, and what each then still has to record.               *)
EXTENDS LivePlay

Paced(r) ==
  /\ Len(seen[r]) <= Len(chosen[r])
  /\ Len(chosen[r]) <= Len(seen[r]) + 1
  /\ Len(seen[r]) <= Len(chosen[Opponent(r)])

(* An action waiting to be applied is still what the strategy chose it as.  *)
PendingIsChoice(r) ==
  Len(seen[r]) < Len(chosen[r])
    => Own(r) = StandStill \/ Legal(state[r], Own(r))

ThiefOnlyMoves ==
  \A t \in DOMAIN chosen["thief"] : chosen["thief"][t].kind = "move"

Placed(a) == IF a.kind = "move" THEN {} ELSE {a.cell}

(* Turns by which the cop is ahead of the thief: -1, 0 or 1. *)
Ahead == Len(seen["police"]) - Len(seen["thief"])

(* The peer that lags has only the cop's last barrier left to record. *)
BoardsDiffer ==
  LET cop == state["police"]
      thief == state["thief"]
  IN  /\ Ahead = 0 => cop.barriers = thief.barriers
      /\ Ahead = 1 =>
           /\ cop.barriers = thief.barriers \cup Placed(Theirs("thief"))
           /\ Placed(Theirs("thief")) \cap thief.barriers = {}
           /\ Theirs("thief").kind = "move" => cop.position \notin cop.barriers
      /\ Ahead = -1 => thief.barriers = cop.barriers \cup Placed(Own("police"))

(* Inductive: the boards and the tracked cop differ by at most one turn.    *)
LiveInvariant ==
  /\ TypeOK
  /\ \A r \in Role : Paced(r) /\ state[r].role = r /\ PendingIsChoice(r)
  /\ ThiefOnlyMoves
  /\ BoardsDiffer
  /\ ThiefTracksCop
=============================================================================
