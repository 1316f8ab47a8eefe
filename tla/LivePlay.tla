------------------------------ MODULE LivePlay ------------------------------
(***************************************************************************)
(* A match as the two live peers play it, above the commit-reveal turn:    *)
(* each chooses from its own board, learns the opponent's action when both *)
(* have chosen (SimultaneousMove, which PeerTurn implements), and applies  *)
(* both actions to what it knows (play_turn's APPLYING_TURN).  No peer     *)
(* knows the other's cell; it tracks where it believes the other to be.    *)
(*                                                                         *)
(* Nobody adjudicates a live match: it runs to --turns, captured or not,   *)
(* and the replay of the two logs decides it (Replay).                     *)
(***************************************************************************)
EXTENDS Board, Sequences

CONSTANT MaxTurn \* --turns

ASSUME MaxTurnAssumption == MaxTurn \in Nat \ {0}

VARIABLES
  chosen,   \* the actions a peer has sealed, by turn
  seen,     \* the opponent's actions it has acted on, by turn
  state,    \* LocalState
  believed, \* OpponentTracker._believed_cell
  failed    \* _fail_turn was taken: the peer plays no more

liveVars == <<chosen, seen, state, believed, failed>>

Turn == INSTANCE SimultaneousMove WITH Player <- Role, Action <- BoardAction

(* The type of every variable. *)
TypeOK ==
  /\ chosen \in [Role -> Seq(BoardAction)]
  /\ seen \in [Role -> Seq(BoardAction)]
  /\ state \in [Role -> LocalState]
  /\ believed \in [Role -> Cells]
  /\ failed \in [Role -> BOOLEAN]

Init ==
  /\ Turn!Init
  /\ state = [r \in Role |-> InitialState(r)]
  /\ believed = [r \in Role |-> StartOf(Opponent(r))]
  /\ failed = [r \in Role |-> FALSE]

ChooseAction(r) ==
  /\ ~failed[r]
  /\ \E a \in Choices(state[r]) : Turn!Choose(r, a)
  /\ UNCHANGED <<state, believed, failed>>

Own(r) == chosen[r][Len(seen[r]) + 1]
Theirs(r) == chosen[Opponent(r)][Len(seen[r]) + 1]

(* Own action first, then the opponent's declared barrier. *)
AfterTurn_OwnOnly(s, own, theirs) == Applied(s, own)
AfterTurn(s, own, theirs) == Observed(Applied(s, own), theirs)

(* observe_opponent_action: dead reckoning from the revealed action, on the *)
(* board that already holds this turn's barriers; a step that cannot be     *)
(* taken is not taken.                                                      *)
Reckoned_Blindly(s, cell, a) ==
  IF a.kind = "move" /\ Shifted(cell, a.direction) \in Cells
  THEN Shifted(cell, a.direction) ELSE cell
Reckoned(s, cell, a) ==
  IF a.kind = "move" /\ IsPassable(s, Shifted(cell, a.direction))
  THEN Shifted(cell, a.direction) ELSE cell

ApplyTurn(r) ==
  /\ ~failed[r]
  /\ Turn!See(r, Opponent(r))
  /\ Legal(state[r], Own(r))
  /\ LET s == AfterTurn(state[r], Own(r), Theirs(r))
     IN  /\ state' = [state EXCEPT ![r] = s]
         /\ believed' = [believed EXCEPT ![r] = Reckoned(s, @, Theirs(r))]
  /\ UNCHANGED failed

(* Both moves are revealed and this peer's own cannot be applied. *)
OwnActionIllegal(r) ==
  /\ ~failed[r]
  /\ Len(seen[r]) < Len(chosen[r])
  /\ Len(seen[r]) < Len(chosen[Opponent(r)])
  /\ ~Legal(state[r], Own(r))
  /\ failed' = [failed EXCEPT ![r] = TRUE]
  /\ UNCHANGED <<chosen, seen, state, believed>>

LiveStep(r) == ChooseAction(r) \/ ApplyTurn(r) \/ OwnActionIllegal(r)

Next == \E r \in Role : LiveStep(r)
Spec == Init /\ [][Next]_liveVars
-----------------------------------------------------------------------------
(* Each peer keeps a board of its own, fed by the other's declarations, and *)
(* applies turns at its own pace.  Whenever both have applied the same      *)
(* turns they hold the same barriers (E-15, E-16); between two turns a      *)
(* barrier still to be recorded is new to the board it will be put on, so   *)
(* observe_barrier, called outside play_turn's try, never raises.           *)
BoardsConverge ==
  \A r \in Role :
    LET o == Opponent(r) IN
    /\ Len(seen[r]) = Len(seen[o]) => state[r].barriers = state[o].barriers
    /\ Len(seen[r]) < Len(seen[o]) =>
         /\ Theirs(r).kind = "place_barrier" =>
              Theirs(r).cell \notin state[r].barriers
         /\ state[o].barriers =
              AfterTurn(state[r], Own(r), Theirs(r)).barriers

(* What the thief may know of the cop it knows exactly: dead reckoning from *)
(* the revealed actions never loses the cop, whoever applies a turn first.  *)
(* The converse fails: the cop loses a thief that moves under its barrier.  *)
ThiefTracksCop ==
  LET ahead == Len(seen["police"]) - Len(seen["thief"])
      cop == state["police"].position
  IN  /\ ahead = 0 => believed["thief"] = cop
      /\ ahead = 1 => cop = Followed(believed["thief"], Theirs("thief"))
      /\ ahead = -1 => believed["thief"] = Followed(cop, Own("police"))
=============================================================================
