------------------------------- MODULE Board -------------------------------
(***************************************************************************)
(* The physics of the game (police_thief.domain): the square board, what   *)
(* one peer knows of it, which actions are legal and what they change, and *)
(* when the thief is caught.  Pure operators: the domain keeps no state.   *)
(*                                                                         *)
(* Axes are counted from 0 (axis_start_index) and row 0 is the top.        *)
(***************************************************************************)
EXTENDS Integers, FiniteSets

CONSTANTS
  GridSize,          \* grid_size: cells on a side
  MaxBarriers,       \* max_barriers: the cop's quota
  CopStart,          \* cop_start
  ThiefStart,        \* thief_start
  SurvivalThreshold, \* survival_threshold: full turns the thief must last
  MaxMoves           \* max_moves: the move ceiling

Cells == (0 .. GridSize - 1) \X (0 .. GridSize - 1)

(* What validate_cross_fields guarantees of a shared configuration. *)
ASSUME BoardAssumption ==
  /\ GridSize \in Nat
  /\ MaxBarriers \in Nat
  /\ CopStart \in Cells
  /\ ThiefStart \in Cells
  /\ CopStart # ThiefStart
  /\ SurvivalThreshold \in Nat \ {0}
  /\ MaxMoves \in Nat
  /\ SurvivalThreshold <= MaxMoves

Role == {"police", "thief"}
Opponent(r) == IF r = "police" THEN "thief" ELSE "police"
StartOf(r) == IF r = "police" THEN CopStart ELSE ThiefStart

-----------------------------------------------------------------------------
(* Directions and actions: a move, or a barrier in place of a move. *)

Delta == [N |-> <<-1, 0>>, S |-> <<1, 0>>, E |-> <<0, 1>>, W |-> <<0, -1>>,
          STAY |-> <<0, 0>>]
Direction == {"N", "S", "E", "W", "STAY"}
Relocation == Direction \ {"STAY"}

Shifted(cell, d) == <<cell[1] + Delta[d][1], cell[2] + Delta[d][2]>>

Move(d) == [kind |-> "move", direction |-> d]
PlaceBarrier(cell) == [kind |-> "place_barrier", cell |-> cell]
StandStill == Move("STAY")

Moves == [kind : {"move"}, direction : Direction]
Placements == [kind : {"place_barrier"}, cell : Cells]
BoardAction == Moves \cup Placements

-----------------------------------------------------------------------------
(* What one peer knows: its own cell and the barriers, which are public. *)

LocalState == [role : Role, position : Cells, barriers : SUBSET Cells,
               placed : Nat]
InitialState(r) == [role |-> r, position |-> StartOf(r), barriers |-> {},
                    placed |-> 0]

IsPassable(s, cell) == cell \in Cells /\ cell \notin s.barriers

MoveLegal_OffBoard(s, d) == Shifted(s.position, d) \notin s.barriers
MoveLegal_ThroughBarriers(s, d) == Shifted(s.position, d) \in Cells
MoveLegal(s, d) == IsPassable(s, Shifted(s.position, d))

(* BlockedCellError, the one refusal the replay forgives: the destination   *)
(* is on the board and holds a barrier.                                     *)
IsBlockedMove(s, a) ==
  a.kind = "move" /\ Shifted(s.position, a.direction) \in s.barriers

(* A barrier goes on the cop's own cell or on an orthogonal neighbour. *)
PlacementLegal(s, cell) ==
  /\ s.role = "police"
  /\ s.placed < MaxBarriers
  /\ IsPassable(s, cell)
  /\ \E d \in Direction : cell = Shifted(s.position, d)

Legal(s, a) ==
  IF a.kind = "move" THEN MoveLegal(s, a.direction) ELSE PlacementLegal(s, a.cell)

LegalActions(s) == {a \in BoardAction : Legal(s, a)}

(* Strategies choose among the legal actions; with none left they return    *)
(* STAY, legal or not.                                                      *)
Choices(s) == IF LegalActions(s) = {} THEN {StandStill} ELSE LegalActions(s)

IsTrapped(s) == \A d \in Relocation : ~MoveLegal(s, d)

(* Where an action takes an agent: placing a barrier forgoes movement. *)
Followed(cell, a) == IF a.kind = "move" THEN Shifted(cell, a.direction) ELSE cell

(* apply_action, after its validation. *)
Applied(s, a) ==
  [role     |-> s.role,
   position |-> Followed(s.position, a),
   barriers |-> IF a.kind = "move" THEN s.barriers ELSE s.barriers \cup {a.cell},
   placed   |-> IF a.kind = "move" THEN s.placed ELSE s.placed + 1]

(* observe_barrier: the opponent's declared barrier, and nothing else of    *)
(* its action, reaches this peer's board.                                   *)
Observed(s, a) ==
  [role     |-> s.role,
   position |-> s.position,
   barriers |-> IF a.kind = "move" THEN s.barriers ELSE s.barriers \cup {a.cell},
   placed   |-> s.placed]

-----------------------------------------------------------------------------
(* Capture and the end of a sub-game; a verdict is a string, "" for none.   *)

BarrierCapture(a, thiefCell) ==
  IF a.kind = "place_barrier" /\ a.cell = thiefCell THEN "barrier_on_thief" ELSE ""

(* PostMovePositionsOnly: passing through each other is not a capture. *)
MovementCapture(copCell, thiefCell) ==
  IF copCell = thiefCell THEN "cop_landed_on_thief" ELSE ""

FullTurnCapture(cop, thief) ==
  IF MovementCapture(cop.position, thief.position) # ""
  THEN MovementCapture(cop.position, thief.position)
  ELSE IF IsTrapped(thief) THEN "thief_has_no_legal_move" ELSE ""

(* Capture comes before survival, survival before the move ceiling. *)

TurnTerminal(t, cop, thief) ==
  IF FullTurnCapture(cop, thief) # "" THEN FullTurnCapture(cop, thief)
  ELSE IF t >= SurvivalThreshold THEN "survival"
  ELSE IF t >= MaxMoves THEN "max_moves_reached" ELSE ""
=============================================================================
