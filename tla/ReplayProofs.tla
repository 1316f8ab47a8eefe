---------------------------- MODULE ReplayProofs ----------------------------
(* Proofs about LivePlay and Replay: for every board, quota, number of turns *)
(* and set of claims the cop's caller makes.                                 *)
EXTENDS ReplayInvariant, SequenceTheorems, WellFoundedInduction,
        NaturalsInduction, TLAPS

-----------------------------------------------------------------------------
(* Facts about the board. *)

LEMMA Opponents ==
  ASSUME NEW r \in Role
  PROVE  Opponent(r) \in Role /\ Opponent(r) # r /\ Opponent(Opponent(r)) = r
BY DEF Role, Opponent

(* Standing still is the one move that needs no cell to go to. *)
LEMMA StayingStays ==
  ASSUME NEW cell \in Cells
  PROVE  Shifted(cell, "STAY") = cell
BY BoardAssumption DEF Cells, Shifted, Delta

LEMMA StandStillTyped ==
  /\ StandStill \in BoardAction
  /\ StandStill.kind = "move"
  /\ StandStill.direction = "STAY"
BY DEF StandStill, Move, BoardAction, Moves, Direction

(* An action is a move or a placement, never both. *)
LEMMA KindOfAction ==
  ASSUME NEW a \in BoardAction
  PROVE  /\ a.kind = "move" => a.direction \in Direction /\ Placed(a) = {}
         /\ a.kind # "move" =>
              a.kind = "place_barrier" /\ a.cell \in Cells /\ Placed(a) = {a.cell}
BY DEF BoardAction, Moves, Placements, Placed

LEMMA FieldsOfState ==
  ASSUME NEW s \in LocalState
  PROVE  /\ s.role \in Role
         /\ s.position \in Cells
         /\ s.barriers \subseteq Cells
         /\ s.placed \in Nat
BY DEF LocalState

(* What a legal action does to the state of the peer that takes it. *)
LEMMA AppliedTyped ==
  ASSUME NEW s \in LocalState, NEW a \in BoardAction, Legal(s, a)
  PROVE  /\ Applied(s, a) \in LocalState
         /\ Applied(s, a).role = s.role
         /\ Applied(s, a).position = Followed(s.position, a)
         /\ Applied(s, a).barriers = s.barriers \cup Placed(a)
<1>1. CASE a.kind = "move"
  <2>1. Shifted(s.position, a.direction) \in Cells
    BY <1>1 DEF Legal, MoveLegal, IsPassable
  <2> QED
    BY <1>1, <2>1, FieldsOfState DEF Applied, Followed, Placed, LocalState
<1>2. CASE a.kind # "move"
  <2>1. a.cell \in Cells
    BY <1>2, KindOfAction
  <2>2. s.placed + 1 \in Nat
    BY FieldsOfState
  <2> QED
    BY <1>2, <2>1, <2>2, FieldsOfState
    DEF Applied, Followed, Placed, LocalState
<1> QED
  BY <1>1, <1>2

(* What the opponent's action does to a peer's board. *)
LEMMA ObservedTyped ==
  ASSUME NEW s \in LocalState, NEW a \in BoardAction
  PROVE  /\ Observed(s, a) \in LocalState
         /\ Observed(s, a).role = s.role
         /\ Observed(s, a).position = s.position
         /\ Observed(s, a).barriers = s.barriers \cup Placed(a)
<1>1. CASE a.kind = "move"
  BY <1>1, FieldsOfState DEF Observed, Placed, LocalState
<1>2. CASE a.kind # "move"
  <2>1. a.cell \in Cells
    BY <1>2, KindOfAction
  <2> QED
    BY <1>2, <2>1, FieldsOfState DEF Observed, Placed, LocalState
<1> QED
  BY <1>1, <1>2

LEMMA AfterTurnTyped ==
  ASSUME NEW s \in LocalState, NEW a \in BoardAction, NEW b \in BoardAction,
         Legal(s, a)
  PROVE  /\ AfterTurn(s, a, b) \in LocalState
         /\ AfterTurn(s, a, b).role = s.role
         /\ AfterTurn(s, a, b).position = Followed(s.position, a)
         /\ AfterTurn(s, a, b).barriers = s.barriers \cup Placed(a) \cup Placed(b)
<1>1. Applied(s, a) \in LocalState
  BY AppliedTyped
<1> QED
  BY <1>1, AppliedTyped, ObservedTyped DEF AfterTurn

(* A legal action leads to a free cell, or puts its barrier on one. *)
LEMMA LegalActionIsFree ==
  ASSUME NEW s \in LocalState, NEW a \in BoardAction, Legal(s, a)
  PROVE  /\ a.kind = "move" =>
              /\ Followed(s.position, a) \in Cells
              /\ Followed(s.position, a) \notin s.barriers
         /\ Placed(a) \cap s.barriers = {}
BY DEF Legal, MoveLegal, PlacementLegal, IsPassable, Followed, Placed

LEMMA ReckonedTyped ==
  ASSUME NEW s \in LocalState, NEW cell \in Cells, NEW a \in BoardAction
  PROVE  Reckoned(s, cell, a) \in Cells
BY DEF Reckoned, IsPassable

(* Dead reckoning follows an action that leads to a free cell, or nowhere. *)
LEMMA ReckonedFollows ==
  ASSUME NEW s \in LocalState, NEW cell \in Cells, NEW a \in BoardAction,
         a.kind = "move" =>
           \/ Followed(cell, a) = cell
           \/ Followed(cell, a) \in Cells /\ Followed(cell, a) \notin s.barriers
  PROVE  Reckoned(s, cell, a) = Followed(cell, a)
BY DEF Reckoned, IsPassable, Followed

(* The choices of a strategy. *)
LEMMA ChoicesTyped ==
  ASSUME NEW s \in LocalState, NEW a \in Choices(s)
  PROVE  /\ a \in BoardAction
         /\ a = StandStill \/ Legal(s, a)
         /\ s.role = "thief" => a.kind = "move"
BY StandStillTyped DEF Choices, LegalActions, Legal, PlacementLegal

-----------------------------------------------------------------------------
(* How far apart the two peers can be. *)
LEMMA PaceBounds ==
  ASSUME TypeOK, \A r \in Role : Paced(r)
  PROVE  /\ Len(seen["police"]) \in Nat
         /\ Len(seen["thief"]) \in Nat
         /\ Len(chosen["police"]) \in Nat
         /\ Len(chosen["thief"]) \in Nat
         /\ Len(seen["police"]) <= Len(chosen["police"])
         /\ Len(seen["police"]) <= Len(chosen["thief"])
         /\ Len(seen["thief"]) <= Len(chosen["police"])
         /\ Len(seen["thief"]) <= Len(chosen["thief"])
         /\ Len(chosen["police"]) <= Len(seen["police"]) + 1
         /\ Len(chosen["thief"]) <= Len(seen["thief"]) + 1
<1>1. "police" \in Role /\ "thief" \in Role
  BY DEF Role
<1>2. Opponent("police") = "thief" /\ Opponent("thief") = "police"
  BY DEF Opponent
<1>3. /\ seen["police"] \in Seq(BoardAction) /\ seen["thief"] \in Seq(BoardAction)
      /\ chosen["police"] \in Seq(BoardAction)
      /\ chosen["thief"] \in Seq(BoardAction)
  BY <1>1 DEF TypeOK
<1>4. Paced("police") /\ Paced("thief")
  BY <1>1
<1> QED
  BY <1>2, <1>3, <1>4, LenProperties DEF Paced

(* Element t of a sequence does not change when one is appended. *)
LEMMA AppendKeeps ==
  ASSUME NEW s \in Seq(BoardAction), NEW a \in BoardAction
  PROVE  /\ Append(s, a) \in Seq(BoardAction)
         /\ Len(Append(s, a)) = Len(s) + 1
         /\ DOMAIN Append(s, a) = 1 .. Len(s) + 1
         /\ DOMAIN s = 1 .. Len(s)
         /\ \A t \in 1 .. Len(s) : Append(s, a)[t] = s[t]
         /\ Append(s, a)[Len(s) + 1] = a
<1>1. Append(s, a) \in Seq(BoardAction) /\ Len(s) \in Nat
  OBVIOUS
<1> QED
  BY <1>1, LenProperties

-----------------------------------------------------------------------------
LEMMA FieldsOfInitialState ==
  ASSUME NEW r \in Role
  PROVE  /\ InitialState(r).role = r
         /\ InitialState(r).position = StartOf(r)
         /\ InitialState(r).barriers = {}
BY DEF InitialState

(* Initially the boards are empty and each peer knows the other's cell. *)
LEMMA InitEstablishes ==
  ASSUME Init
  PROVE  LiveInvariant
<1>1. \A r \in Role : /\ chosen[r] = <<>> /\ seen[r] = <<>>
                      /\ state[r] = InitialState(r)
                      /\ believed[r] = StartOf(Opponent(r))
  BY DEF Init, Turn!Init
<1>2. \A r \in Role : InitialState(r) \in LocalState
  BY BoardAssumption DEF InitialState, LocalState, StartOf
<1>3. TypeOK
  BY <1>2, BoardAssumption, EmptySeq DEF TypeOK, Init, Turn!Init, StartOf
<1>4. \A r \in Role : Len(seen[r]) = 0 /\ Len(chosen[r]) = 0
  BY <1>1, EmptySeq
<1>5. \A r \in Role : state[r].role = r
  BY <1>1, FieldsOfInitialState
<1>6. \A r \in Role : Paced(r) /\ PendingIsChoice(r)
  <2> SUFFICES ASSUME NEW r \in Role
               PROVE  Paced(r) /\ PendingIsChoice(r)
    OBVIOUS
  <2>1. /\ Len(seen[r]) = 0 /\ Len(chosen[r]) = 0
        /\ Len(chosen[Opponent(r)]) = 0
    BY <1>4, Opponents
  <2>2. Paced(r)
    BY <2>1 DEF Paced
  <2>3. ~(Len(seen[r]) < Len(chosen[r]))
    BY <2>1
  <2> QED
    BY <2>2, <2>3 DEF PendingIsChoice
<1>7. "police" \in Role /\ "thief" \in Role /\ Opponent("thief") = "police"
  BY DEF Role, Opponent
<1>8. ThiefOnlyMoves
  <2>1. DOMAIN chosen["thief"] = {}
    BY <1>1, <1>7
  <2> QED
    BY <2>1 DEF ThiefOnlyMoves
<1>9. Ahead = 0 /\ Ahead # 1 /\ Ahead # -1
  BY <1>4, <1>7 DEF Ahead
<1>10. BoardsDiffer
  <2>1. state["police"].barriers = {} /\ state["thief"].barriers = {}
    BY <1>1, <1>7, FieldsOfInitialState
  <2> QED
    BY <1>9, <2>1 DEF BoardsDiffer
<1>11. ThiefTracksCop
  <2>1. believed["thief"] = CopStart /\ state["police"].position = CopStart
    BY <1>1, <1>7, FieldsOfInitialState DEF StartOf
  <2> QED
    BY <1>9, <2>1 DEF ThiefTracksCop, Ahead
<1> QED
  BY <1>3, <1>5, <1>6, <1>8, <1>10, <1>11 DEF LiveInvariant

(* A choice changes nothing but the list of the peer's own choices.         *)
LEMMA ChooseTyped ==
  ASSUME TypeOK, NEW r \in Role, NEW a \in BoardAction, Turn!Choose(r, a),
         UNCHANGED <<state, believed, failed>>
  PROVE  /\ TypeOK'
         /\ chosen[r] \in Seq(BoardAction)
         /\ Len(chosen[r]) = Len(seen[r])
         /\ chosen'[r] = Append(chosen[r], a)
         /\ \A s \in Role : s # r => chosen'[s] = chosen[s]
         /\ seen' = seen
<1>1. chosen[r] \in Seq(BoardAction)
  BY DEF TypeOK
<1>2. Append(chosen[r], a) \in Seq(BoardAction)
  BY <1>1, AppendKeeps
<1> QED
  BY <1>1, <1>2 DEF TypeOK, Turn!Choose

LEMMA ChooseKeeps ==
  ASSUME LiveInvariant, NEW r \in Role, ChooseAction(r)
  PROVE  LiveInvariant'
<1> USE DEF LiveInvariant
<1>1. PICK a \in Choices(state[r]) : Turn!Choose(r, a)
  BY DEF ChooseAction
<1>2. UNCHANGED <<state, believed, failed>>
  BY DEF ChooseAction
<1>3. state[r] \in LocalState
  BY DEF TypeOK
<1>4. /\ a \in BoardAction
      /\ a = StandStill \/ Legal(state[r], a)
      /\ r = "thief" => a.kind = "move"
  BY <1>1, <1>3, ChoicesTyped
<1>5. /\ TypeOK'
      /\ chosen[r] \in Seq(BoardAction)
      /\ Len(chosen[r]) = Len(seen[r])
      /\ chosen'[r] = Append(chosen[r], a)
      /\ \A s \in Role : s # r => chosen'[s] = chosen[s]
      /\ seen' = seen
  BY <1>1, <1>2, <1>4, ChooseTyped
<1>6. /\ Len(chosen'[r]) = Len(chosen[r]) + 1
      /\ DOMAIN chosen'[r] = 1 .. Len(chosen[r]) + 1
      /\ DOMAIN chosen[r] = 1 .. Len(chosen[r])
      /\ \A t \in 1 .. Len(chosen[r]) : chosen'[r][t] = chosen[r][t]
      /\ chosen'[r][Len(chosen[r]) + 1] = a
  BY <1>4, <1>5, AppendKeeps
<1>7. /\ "police" \in Role /\ "thief" \in Role
      /\ Opponent("police") = "thief" /\ Opponent("thief") = "police"
  BY DEF Role, Opponent
<1>8. r = "police" \/ r = "thief"
  BY DEF Role
<1>9. /\ Len(seen["police"]) \in Nat
      /\ Len(seen["thief"]) \in Nat
      /\ Len(chosen["police"]) \in Nat
      /\ Len(chosen["thief"]) \in Nat
      /\ Len(seen["police"]) <= Len(chosen["police"])
      /\ Len(seen["police"]) <= Len(chosen["thief"])
      /\ Len(seen["thief"]) <= Len(chosen["police"])
      /\ Len(seen["thief"]) <= Len(chosen["thief"])
      /\ Len(chosen["police"]) <= Len(seen["police"]) + 1
      /\ Len(chosen["thief"]) <= Len(seen["thief"]) + 1
  BY PaceBounds
<1>10. \A s \in Role : Paced(s)'
  <2> SUFFICES ASSUME NEW s \in Role
               PROVE  Paced(s)'
    OBVIOUS
  <2>1. Opponent(s) \in Role /\ seen' = seen
    BY <1>5 DEF Role, Opponent
  <2>2. Paced(s)
    OBVIOUS
  <2>3. /\ Len(seen[s]) \in Nat
        /\ \A q \in Role : Len(chosen[q]) \in Nat
    BY <1>9 DEF Role
  <2>4. \A q \in Role :
          Len(chosen'[q]) = IF q = r THEN Len(chosen[q]) + 1 ELSE Len(chosen[q])
    BY <1>5, <1>6
  <2>5. Len(chosen'[s]) <= Len(seen[s]) + 1
    BY <1>5, <2>2, <2>3, <2>4 DEF Paced
  <2>6. /\ Len(chosen[s]) <= Len(chosen'[s])
        /\ Len(chosen[Opponent(s)]) <= Len(chosen'[Opponent(s)])
    BY <2>1, <2>3, <2>4
  <2>7. /\ Len(chosen'[s]) \in Nat
        /\ Len(chosen'[Opponent(s)]) \in Nat
    BY <2>1, <2>3, <2>4
  <2> QED
    BY <2>1, <2>2, <2>3, <2>5, <2>6, <2>7 DEF Paced
<1>11. \A s \in Role : (state[s].role = s)'
  BY <1>2
<1>12. \A s \in Role : PendingIsChoice(s)'
  <2> SUFFICES ASSUME NEW s \in Role
               PROVE  PendingIsChoice(s)'
    OBVIOUS
  <2>1. CASE s = r
    BY <2>1, <1>2, <1>4, <1>5, <1>6 DEF PendingIsChoice, Own
  <2>2. CASE s # r
    <3>1. PendingIsChoice(s)
      OBVIOUS
    <3> QED
      BY <3>1, <2>2, <1>2, <1>5 DEF PendingIsChoice, Own
  <2> QED
    BY <2>1, <2>2
<1>13. ThiefOnlyMoves'
  <2>1. CASE r = "thief"
    BY <2>1, <1>4, <1>6 DEF ThiefOnlyMoves
  <2>2. CASE r # "thief"
    BY <2>2, <1>5, <1>7 DEF ThiefOnlyMoves
  <2> QED
    BY <2>1, <2>2
<1>14. /\ Ahead' = Ahead
       /\ Ahead = 1 => Theirs("thief")' = Theirs("thief")
       /\ Ahead = -1 => Own("police")' = Own("police")
  <2>1. Ahead' = Ahead
    BY <1>5 DEF Ahead
  <2>2. CASE r = "thief"
    BY <2>1, <2>2, <1>5, <1>7 DEF Theirs, Own
  <2>3. CASE r = "police"
    <3>1. Ahead # -1
      BY <2>3, <1>5, <1>9 DEF Ahead
    <3>2. Ahead = 1 => Len(seen["thief"]) + 1 \in 1 .. Len(chosen["police"])
      BY <1>9 DEF Ahead
    <3> QED
      BY <2>1, <2>3, <3>1, <3>2, <1>5, <1>6, <1>7 DEF Theirs
  <2> QED
    BY <2>2, <2>3, <1>8
<1>15. BoardsDiffer'
  BY <1>2, <1>14 DEF BoardsDiffer
<1>16. ThiefTracksCop'
  BY <1>2, <1>14 DEF ThiefTracksCop, Ahead
<1> QED
  BY <1>5, <1>10, <1>11, <1>12, <1>13, <1>15, <1>16

-----------------------------------------------------------------------------
(* What applying a turn changes, whoever applies it. *)
LEMMA ApplyTyped ==
  ASSUME LiveInvariant, NEW r \in Role, ApplyTurn(r)
  PROVE  /\ TypeOK'
         /\ Own(r) \in BoardAction
         /\ Theirs(r) \in BoardAction
         /\ Legal(state[r], Own(r))
         /\ Len(seen[r]) < Len(chosen[r])
         /\ Len(seen[r]) < Len(chosen[Opponent(r)])
         /\ chosen' = chosen
         /\ Len(seen'[r]) = Len(seen[r]) + 1
         /\ \A s \in Role : s # r =>
              /\ seen'[s] = seen[s]
              /\ state'[s] = state[s]
              /\ believed'[s] = believed[s]
         /\ state'[r] \in LocalState
         /\ state'[r].role = r
         /\ state'[r].position = Followed(state[r].position, Own(r))
         /\ state'[r].barriers =
              state[r].barriers \cup Placed(Own(r)) \cup Placed(Theirs(r))
         /\ believed'[r] = Reckoned(state'[r], believed[r], Theirs(r))
<1> DEFINE s == AfterTurn(state[r], Own(r), Theirs(r))
<1>1. Opponent(r) \in Role
  BY Opponents
<1>2. /\ TypeOK
      /\ state[r].role = r
      /\ state[r] \in LocalState
      /\ believed[r] \in Cells
      /\ seen[r] \in Seq(BoardAction)
      /\ chosen[r] \in Seq(BoardAction)
      /\ chosen[Opponent(r)] \in Seq(BoardAction)
  BY <1>1 DEF LiveInvariant, TypeOK
<1>3. /\ Len(seen[r]) \in Nat
      /\ Len(chosen[r]) \in Nat
      /\ Len(chosen[Opponent(r)]) \in Nat
  BY <1>2, LenProperties
<1>4. /\ Len(seen[r]) < Len(chosen[r])
      /\ Len(seen[r]) < Len(chosen[Opponent(r)])
      /\ chosen' = chosen
      /\ seen' = [seen EXCEPT ![r] = Append(@, chosen[Opponent(r)][Len(@) + 1])]
  BY DEF ApplyTurn, Turn!See
<1>5. Own(r) \in BoardAction
  <2>1. Len(seen[r]) + 1 \in 1 .. Len(chosen[r])
    BY <1>3, <1>4
  <2> QED
    BY <2>1, <1>2, ElementOfSeq DEF Own
<1>6. Theirs(r) \in BoardAction
  <2>1. Len(seen[r]) + 1 \in 1 .. Len(chosen[Opponent(r)])
    BY <1>3, <1>4
  <2> QED
    BY <2>1, <1>2, ElementOfSeq DEF Theirs
<1>7. seen' = [seen EXCEPT ![r] = Append(seen[r], Theirs(r))]
  BY <1>4 DEF Theirs
<1>8. /\ Append(seen[r], Theirs(r)) \in Seq(BoardAction)
      /\ Len(Append(seen[r], Theirs(r))) = Len(seen[r]) + 1
  BY <1>2, <1>6, AppendKeeps
<1>9. Legal(state[r], Own(r))
  BY DEF ApplyTurn
<1>10. /\ state' = [state EXCEPT ![r] = s]
       /\ believed' = [believed EXCEPT ![r] = Reckoned(s, believed[r], Theirs(r))]
       /\ failed' = failed
  BY DEF ApplyTurn
<1>11. /\ s \in LocalState
       /\ s.role = r
       /\ s.position = Followed(state[r].position, Own(r))
       /\ s.barriers = state[r].barriers \cup Placed(Own(r)) \cup Placed(Theirs(r))
  BY <1>2, <1>5, <1>6, <1>9, AfterTurnTyped
<1>12. Reckoned(s, believed[r], Theirs(r)) \in Cells
  BY <1>2, <1>6, <1>11, ReckonedTyped
<1> HIDE DEF s
<1>13. TypeOK'
  BY <1>2, <1>4, <1>7, <1>8, <1>10, <1>11, <1>12 DEF TypeOK
<1>14. state'[r] = s /\ believed'[r] = Reckoned(s, believed[r], Theirs(r))
  BY <1>2, <1>10 DEF TypeOK
<1>15. Len(seen'[r]) = Len(seen[r]) + 1
  BY <1>2, <1>7, <1>8 DEF TypeOK
<1>16. \A p \in Role : p # r =>
         seen'[p] = seen[p] /\ state'[p] = state[p] /\ believed'[p] = believed[p]
  BY <1>2, <1>7, <1>10 DEF TypeOK
<1> QED
  BY <1>4, <1>5, <1>6, <1>9, <1>11, <1>13, <1>14, <1>15, <1>16

(* The parts of the invariant that a turn leaves to the peer alone.         *)
LEMMA ApplyKeepsPace ==
  ASSUME LiveInvariant, NEW r \in Role, ApplyTurn(r)
  PROVE  /\ \A s \in Role : (Paced(s) /\ state[s].role = s /\ PendingIsChoice(s))'
         /\ ThiefOnlyMoves'
<1>1. /\ Len(seen[r]) < Len(chosen[r])
      /\ Len(seen[r]) < Len(chosen[Opponent(r)])
      /\ chosen' = chosen
      /\ Len(seen'[r]) = Len(seen[r]) + 1
      /\ \A s \in Role : s # r => seen'[s] = seen[s] /\ state'[s] = state[s]
      /\ state'[r].role = r
  BY ApplyTyped
<1>2. /\ \A s \in Role : Paced(s) /\ state[s].role = s /\ PendingIsChoice(s)
      /\ \A s \in Role : Len(seen[s]) \in Nat /\ Len(chosen[s]) \in Nat
  BY LenProperties DEF LiveInvariant, TypeOK
<1>3. Opponent(r) \in Role
  BY Opponents
<1>4. SUFFICES ASSUME NEW s \in Role
               PROVE  (Paced(s) /\ state[s].role = s /\ PendingIsChoice(s))'
  BY <1>1 DEF LiveInvariant, ThiefOnlyMoves
<1>5. CASE s = r
  <2>1. Paced(r)'
    BY <1>1, <1>2, <1>3 DEF Paced
  <2>2. PendingIsChoice(r)'
    <3>1. Len(chosen[r]) <= Len(seen[r]) + 1
      BY <1>2 DEF Paced
    <3> QED
      BY <3>1, <1>1, <1>2 DEF PendingIsChoice
  <2> QED
    BY <2>1, <2>2, <1>1, <1>5
<1>6. CASE s # r
  <2>1. Paced(s) /\ state[s].role = s /\ PendingIsChoice(s)
    BY <1>2
  <2> QED
    BY <2>1, <1>1, <1>6 DEF Paced, PendingIsChoice, Own
<1> QED
  BY <1>5, <1>6

(* The cop applies a turn: it catches up with the thief, or gets ahead.     *)
LEMMA CopAppliesTurn ==
  ASSUME LiveInvariant, ApplyTurn("police")
  PROVE  BoardsDiffer' /\ ThiefTracksCop'
<1> DEFINE cop   == state["police"]
           thief == state["thief"]
           a     == Own("police")
           b     == Theirs("police")
<1>1. /\ "police" \in Role /\ "thief" \in Role /\ "thief" # "police"
      /\ Opponent("police") = "thief" /\ Opponent("thief") = "police"
  BY DEF Role, Opponent
<1>2. /\ a \in BoardAction /\ b \in BoardAction /\ Legal(cop, a)
      /\ Len(seen["police"]) < Len(chosen["police"])
      /\ Len(seen["police"]) < Len(chosen["thief"])
      /\ chosen' = chosen
      /\ Len(seen'["police"]) = Len(seen["police"]) + 1
      /\ seen'["thief"] = seen["thief"]
      /\ state'["thief"] = thief
      /\ believed'["thief"] = believed["thief"]
      /\ state'["police"].position = Followed(cop.position, a)
      /\ state'["police"].barriers = cop.barriers \cup Placed(a) \cup Placed(b)
  BY <1>1, ApplyTyped
<1>3. cop \in LocalState
  BY <1>1 DEF LiveInvariant, TypeOK
<1>4. Len(seen["police"]) \in Nat /\ Len(seen["thief"]) \in Nat
      /\ Len(chosen["thief"]) <= Len(seen["thief"]) + 1
      /\ Len(seen["thief"]) <= Len(chosen["police"])
      /\ Len(chosen["police"]) <= Len(seen["police"]) + 1
      /\ Len(chosen["thief"]) \in Nat /\ Len(chosen["police"]) \in Nat
  BY PaceBounds DEF LiveInvariant
<1>5. Placed(b) = {}
  <2>1. Len(seen["police"]) + 1 \in 1 .. Len(chosen["thief"])
    BY <1>2, <1>4
  <2>2. DOMAIN chosen["thief"] = 1 .. Len(chosen["thief"])
    BY <1>1, LenProperties DEF LiveInvariant, TypeOK
  <2>3. b.kind = "move"
    BY <1>1, <2>1, <2>2 DEF LiveInvariant, ThiefOnlyMoves, Theirs
  <2> QED
    BY <2>3 DEF Placed
<1>6. state'["police"].barriers = cop.barriers \cup Placed(a)
  BY <1>2, <1>5
<1>7. /\ a.kind = "move" => Followed(cop.position, a) \notin cop.barriers
      /\ a.kind = "move" => Placed(a) = {}
      /\ Placed(a) \cap cop.barriers = {}
  BY <1>2, <1>3, LegalActionIsFree, KindOfAction
<1>8. Ahead = 0 \/ Ahead = -1
  BY <1>2, <1>4 DEF Ahead
<1>9. CASE Ahead = 0
  <2>1. Len(seen["thief"]) = Len(seen["police"]) /\ Ahead' = 1
    BY <1>2, <1>4, <1>9 DEF Ahead
  <2>2. Ahead' # 0 /\ Ahead' # -1
    BY <2>1
  <2>3. Theirs("thief")' = a
    BY <2>1, <1>1, <1>2 DEF Theirs, Own
  <2>4. cop.barriers = thief.barriers /\ believed["thief"] = cop.position
    BY <1>9 DEF LiveInvariant, BoardsDiffer, ThiefTracksCop, Ahead
  <2>5. BoardsDiffer'
    <3> HIDE DEF a, b
    <3>1. /\ state'["police"].barriers = state'["thief"].barriers \cup Placed(a)
          /\ Placed(a) \cap state'["thief"].barriers = {}
          /\ a.kind = "move" =>
               state'["police"].position \notin state'["police"].barriers
      BY <2>4, <1>2, <1>6, <1>7
    <3> QED
      BY <3>1, <2>1, <2>2, <2>3 DEF BoardsDiffer
  <2>6. ThiefTracksCop'
    <3>1. state'["police"].position = Followed(believed'["thief"], a)
      BY <2>4, <1>2
    <3> QED
      BY <3>1, <2>1, <2>2, <2>3 DEF ThiefTracksCop, Ahead
  <2> QED
    BY <2>5, <2>6
<1>10. CASE Ahead = -1
  <2>1. Ahead' = 0
    BY <1>2, <1>4, <1>10 DEF Ahead
  <2>2. Ahead' # 1 /\ Ahead' # -1
    BY <2>1
  <2>3. /\ thief.barriers = cop.barriers \cup Placed(a)
        /\ believed["thief"] = Followed(cop.position, a)
    BY <1>10 DEF LiveInvariant, BoardsDiffer, ThiefTracksCop, Ahead
  <2>4. BoardsDiffer'
    BY <2>1, <2>2, <2>3, <1>2, <1>6 DEF BoardsDiffer
  <2>5. ThiefTracksCop'
    BY <2>1, <2>2, <2>3, <1>2 DEF ThiefTracksCop, Ahead
  <2> QED
    BY <2>4, <2>5
<1> QED
  BY <1>8, <1>9, <1>10

(* The thief applies a turn: it learns of the barrier and follows the cop.  *)
LEMMA ThiefAppliesTurn ==
  ASSUME LiveInvariant, ApplyTurn("thief")
  PROVE  BoardsDiffer' /\ ThiefTracksCop'
<1> DEFINE cop   == state["police"]
           thief == state["thief"]
           a     == Theirs("thief")
           b     == Own("thief")
<1>1. /\ "police" \in Role /\ "thief" \in Role /\ "thief" # "police"
      /\ Opponent("police") = "thief" /\ Opponent("thief") = "police"
  BY DEF Role, Opponent
<1>2. /\ a \in BoardAction /\ b \in BoardAction
      /\ Len(seen["thief"]) < Len(chosen["thief"])
      /\ Len(seen["thief"]) < Len(chosen["police"])
      /\ chosen' = chosen
      /\ Len(seen'["thief"]) = Len(seen["thief"]) + 1
      /\ seen'["police"] = seen["police"]
      /\ state'["police"] = cop
      /\ state'["thief"] \in LocalState
      /\ state'["thief"].barriers = thief.barriers \cup Placed(b) \cup Placed(a)
      /\ believed'["thief"] = Reckoned(state'["thief"], believed["thief"], a)
  BY <1>1, ApplyTyped
<1>3. cop \in LocalState /\ believed["thief"] \in Cells
  BY <1>1 DEF LiveInvariant, TypeOK
<1>4. Len(seen["police"]) \in Nat /\ Len(seen["thief"]) \in Nat
      /\ Len(chosen["thief"]) <= Len(seen["thief"]) + 1
      /\ Len(seen["police"]) <= Len(chosen["thief"])
      /\ Len(chosen["police"]) <= Len(seen["police"]) + 1
      /\ Len(chosen["thief"]) \in Nat /\ Len(chosen["police"]) \in Nat
  BY PaceBounds DEF LiveInvariant
<1>5. Placed(b) = {}
  <2>1. Len(seen["thief"]) + 1 \in 1 .. Len(chosen["thief"])
    BY <1>2, <1>4
  <2>2. DOMAIN chosen["thief"] = 1 .. Len(chosen["thief"])
    BY <1>1, LenProperties DEF LiveInvariant, TypeOK
  <2>3. b.kind = "move"
    BY <2>1, <2>2 DEF LiveInvariant, ThiefOnlyMoves, Own
  <2> QED
    BY <2>3 DEF Placed
<1>6. state'["thief"].barriers = thief.barriers \cup Placed(a)
  BY <1>2, <1>5
<1>7. a.kind = "move" => Placed(a) = {}
  BY <1>2, KindOfAction
<1>8. a.kind # "move" => \A cell : Followed(cell, a) = cell
  BY DEF Followed
<1>9. Ahead = 0 \/ Ahead = 1
  BY <1>2, <1>4 DEF Ahead
<1>10. CASE Ahead = 0
  <2>1. Len(seen["thief"]) = Len(seen["police"]) /\ Ahead' = -1
    BY <1>2, <1>4, <1>10 DEF Ahead
  <2>2. Ahead' # 0 /\ Ahead' # 1
    BY <2>1
  <2>3. Own("police") = a
    BY <2>1, <1>1 DEF Theirs, Own
  <2>4. Own("police")' = a
    BY <2>3, <1>2 DEF Own
  <2>5. cop.barriers = thief.barriers /\ believed["thief"] = cop.position
    BY <1>10 DEF LiveInvariant, BoardsDiffer, ThiefTracksCop, Ahead
  <2>6. a = StandStill \/ Legal(cop, a)
    BY <2>1, <2>3, <1>1, <1>2 DEF LiveInvariant, PendingIsChoice
  <2>7. believed'["thief"] = Followed(cop.position, a)
    <3>1. CASE a.kind = "move" /\ Legal(cop, a)
      <4>1. /\ Followed(cop.position, a) \in Cells
            /\ Followed(cop.position, a) \notin state'["thief"].barriers
        BY <3>1, <1>2, <1>3, <1>6, <1>7, <2>5, LegalActionIsFree
      <4> QED
        BY <4>1, <1>2, <1>3, <2>5, ReckonedFollows
    <3>2. CASE a = StandStill
      <4>1. cop.position \in Cells
        BY <1>3, FieldsOfState
      <4>2. Followed(cop.position, a) = cop.position
        BY <3>2, <4>1, StayingStays, StandStillTyped DEF Followed
      <4> QED
        BY <4>1, <4>2, <1>2, <2>5, ReckonedFollows
    <3>3. CASE a.kind # "move"
      BY <3>3, <1>2, <1>3, <2>5, ReckonedFollows
    <3> QED
      BY <3>1, <3>2, <3>3, <2>6
  <2>8. BoardsDiffer'
    BY <2>1, <2>2, <2>4, <2>5, <1>2, <1>6 DEF BoardsDiffer
  <2>9. ThiefTracksCop'
    BY <2>1, <2>2, <2>4, <2>7, <1>2 DEF ThiefTracksCop, Ahead
  <2> QED
    BY <2>8, <2>9
<1>11. CASE Ahead = 1
  <2>1. Ahead' = 0
    BY <1>2, <1>4, <1>11 DEF Ahead
  <2>2. Ahead' # 1 /\ Ahead' # -1
    BY <2>1
  <2>3. /\ cop.barriers = thief.barriers \cup Placed(a)
        /\ a.kind = "move" => cop.position \notin cop.barriers
        /\ cop.position = Followed(believed["thief"], a)
    BY <1>11 DEF LiveInvariant, BoardsDiffer, ThiefTracksCop, Ahead
  <2>4. believed'["thief"] = cop.position
    <3>1. cop.position \in Cells
      BY <1>3, FieldsOfState
    <3>2. a.kind = "move" => cop.position \notin state'["thief"].barriers
      BY <2>3, <1>6
    <3> QED
      BY <3>1, <3>2, <2>3, <1>2, <1>3, ReckonedFollows
  <2>5. BoardsDiffer'
    BY <2>1, <2>2, <2>3, <1>2, <1>6 DEF BoardsDiffer
  <2>6. ThiefTracksCop'
    BY <2>1, <2>2, <2>4, <1>2 DEF ThiefTracksCop, Ahead
  <2> QED
    BY <2>5, <2>6
<1> QED
  BY <1>9, <1>10, <1>11

(* A peer that fails keeps everything as it was. *)
LEMMA FailingKeeps ==
  ASSUME LiveInvariant, NEW r \in Role, OwnActionIllegal(r)
  PROVE  LiveInvariant'
<1>1. TypeOK'
  BY DEF LiveInvariant, TypeOK, OwnActionIllegal
<1>2. UNCHANGED <<chosen, seen, state, believed>>
  BY DEF OwnActionIllegal
<1> QED
  BY <1>1, <1>2
  DEF LiveInvariant, Paced, PendingIsChoice, ThiefOnlyMoves, BoardsDiffer,
      ThiefTracksCop, Ahead, Own, Theirs

LEMMA NextKeeps ==
  ASSUME LiveInvariant, [Next]_liveVars
  PROVE  LiveInvariant'
<1>1. CASE UNCHANGED liveVars
  BY <1>1
  DEF LiveInvariant, TypeOK, Paced, PendingIsChoice, ThiefOnlyMoves,
      BoardsDiffer, ThiefTracksCop, Ahead, Own, Theirs, liveVars
<1>2. CASE Next
  <2>1. PICK r \in Role : LiveStep(r)
    BY <1>2 DEF Next
  <2>2. CASE ChooseAction(r)
    BY <2>2, ChooseKeeps
  <2>3. CASE ApplyTurn(r)
    <3>1. TypeOK'
      BY <2>3, ApplyTyped
    <3>2. BoardsDiffer' /\ ThiefTracksCop'
      <4>1. CASE r = "police"
        BY <4>1, <2>3, CopAppliesTurn
      <4>2. CASE r = "thief"
        BY <4>2, <2>3, ThiefAppliesTurn
      <4> QED
        BY <4>1, <4>2 DEF Role
    <3>3. /\ \A s \in Role : (Paced(s) /\ state[s].role = s /\ PendingIsChoice(s))'
          /\ ThiefOnlyMoves'
      BY <2>3, ApplyKeepsPace
    <3> QED
      BY <3>1, <3>2, <3>3 DEF LiveInvariant
  <2>4. CASE OwnActionIllegal(r)
    BY <2>4, FailingKeeps
  <2> QED
    BY <2>1, <2>2, <2>3, <2>4 DEF LiveStep
<1> QED
  BY <1>1, <1>2

(* What the boards share follows from how far apart they may be. *)
LEMMA InvariantSharesBoard ==
  ASSUME LiveInvariant
  PROVE  BoardsConverge
<1> DEFINE cop   == state["police"]
           thief == state["thief"]
<1>1. /\ "police" \in Role /\ "thief" \in Role
      /\ \A r \in Role : r = "police" \/ r = "thief"
      /\ Opponent("police") = "thief" /\ Opponent("thief") = "police"
  BY DEF Role, Opponent
<1>2. /\ Len(seen["police"]) \in Nat /\ Len(seen["thief"]) \in Nat
      /\ Len(seen["police"]) <= Len(chosen["police"])
      /\ Len(seen["police"]) <= Len(chosen["thief"])
      /\ Len(seen["thief"]) <= Len(chosen["police"])
      /\ Len(seen["thief"]) <= Len(chosen["thief"])
      /\ Len(chosen["police"]) <= Len(seen["police"]) + 1
      /\ Len(chosen["thief"]) <= Len(seen["thief"]) + 1
      /\ Len(chosen["thief"]) \in Nat /\ Len(chosen["police"]) \in Nat
  BY PaceBounds DEF LiveInvariant
<1>3. \A t \in 1 .. Len(chosen["thief"]) : chosen["thief"][t].kind = "move"
  <2>1. DOMAIN chosen["thief"] = 1 .. Len(chosen["thief"])
    BY <1>1, LenProperties DEF LiveInvariant, TypeOK
  <2> QED
    BY <2>1 DEF LiveInvariant, ThiefOnlyMoves
<1>4. \A s, a, b : AfterTurn(s, a, b).barriers
                     = s.barriers \cup Placed(a) \cup Placed(b)
  BY DEF AfterTurn, Applied, Observed, Placed
<1>5. Len(seen["police"]) = Len(seen["thief"]) => cop.barriers = thief.barriers
  BY <1>2 DEF LiveInvariant, BoardsDiffer, Ahead
<1>6. ASSUME Len(seen["police"]) < Len(seen["thief"])
      PROVE  /\ Theirs("police").kind = "move"
             /\ thief.barriers = AfterTurn(cop, Own("police"),
                                           Theirs("police")).barriers
  <2>1. Ahead = -1 /\ Len(seen["police"]) + 1 \in 1 .. Len(chosen["thief"])
    BY <1>2, <1>6 DEF Ahead
  <2>2. Theirs("police").kind = "move"
    BY <2>1, <1>1, <1>3 DEF Theirs
  <2>3. thief.barriers = cop.barriers \cup Placed(Own("police"))
    BY <2>1 DEF LiveInvariant, BoardsDiffer
  <2>4. Placed(Theirs("police")) = {}
    BY <2>2 DEF Placed
  <2> QED
    BY <2>2, <2>3, <2>4, <1>4
<1>7. ASSUME Len(seen["thief"]) < Len(seen["police"])
      PROVE  /\ Theirs("thief").kind = "place_barrier" =>
                  Theirs("thief").cell \notin thief.barriers
             /\ cop.barriers = AfterTurn(thief, Own("thief"),
                                         Theirs("thief")).barriers
  <2>1. Ahead = 1 /\ Len(seen["thief"]) + 1 \in 1 .. Len(chosen["thief"])
    BY <1>2, <1>7 DEF Ahead
  <2>2. Own("thief").kind = "move"
    BY <2>1, <1>3 DEF Own
  <2>3. /\ cop.barriers = thief.barriers \cup Placed(Theirs("thief"))
        /\ Placed(Theirs("thief")) \cap thief.barriers = {}
    BY <2>1 DEF LiveInvariant, BoardsDiffer
  <2>4. Placed(Own("thief")) = {}
    BY <2>2 DEF Placed
  <2>5. Theirs("thief").kind = "place_barrier" =>
          Theirs("thief").cell \in Placed(Theirs("thief"))
    BY DEF Placed
  <2> QED
    BY <2>3, <2>4, <2>5, <1>4
<1> QED
  BY <1>1, <1>5, <1>6, <1>7 DEF BoardsConverge

-----------------------------------------------------------------------------
(* The boards and the tracked cop are at most one turn apart (play_turn,    *)
(* OpponentTracker), on every board and for any number of turns.            *)
THEOREM LivePlaySafe == Spec => []LiveInvariant
<1>1. Init => LiveInvariant
  BY InitEstablishes
<1>2. LiveInvariant /\ [Next]_liveVars => LiveInvariant'
  BY NextKeeps
<1> QED
  BY <1>1, <1>2, PTL DEF Spec

(* Whenever both peers have applied the same turns they hold the same       *)
(* barriers, and a barrier still to be recorded never falls on one already  *)
(* there: play_turn's observe_barrier, which no try guards, cannot raise.   *)
THEOREM PeersShareBoard == Spec => []BoardsConverge
<1>1. LiveInvariant => BoardsConverge
  BY InvariantSharesBoard
<1> QED
  BY <1>1, LivePlaySafe, PTL

(* OpponentTracker's dead reckoning never loses the cop. *)
THEOREM ThiefNeverLosesCop == Spec => []ThiefTracksCop
<1>1. LiveInvariant => ThiefTracksCop
  BY DEF LiveInvariant
<1> QED
  BY <1>1, LivePlaySafe, PTL

(* Every variable keeps its type: no legal action leads off the board. *)
THEOREM LivePlayTyped == Spec => []TypeOK
<1>1. LiveInvariant => TypeOK
  BY DEF LiveInvariant
<1> QED
  BY <1>1, LivePlaySafe, PTL

(* A live match is a simultaneous-move game: choose_action and the applying *)
(* part of play_turn are its two moves and nothing else touches them.       *)
THEOREM LivePlayIsGame == Spec => Turn!Spec
<1>1. Init => Turn!Init
  BY DEF Init
<1>2. ASSUME [Next]_liveVars
      PROVE  [Turn!Next]_(Turn!vars)
  <2>1. CASE UNCHANGED liveVars
    BY <2>1 DEF liveVars, Turn!vars
  <2>2. CASE Next
    <3>1. PICK r \in Role : LiveStep(r)
      BY <2>2 DEF Next
    <3>2. CASE ChooseAction(r)
      <4>1. Choices(state[r]) \subseteq BoardAction
        BY StandStillTyped DEF Choices, LegalActions
      <4> QED
        BY <3>2, <4>1 DEF ChooseAction, Turn!Next
    <3>3. CASE ApplyTurn(r)
      BY <3>3, Opponents DEF ApplyTurn, Turn!Next
    <3>4. CASE OwnActionIllegal(r)
      BY <3>4 DEF OwnActionIllegal, Turn!vars
    <3> QED
      BY <3>1, <3>2, <3>3, <3>4 DEF LiveStep
  <2> QED
    BY <1>2, <2>1, <2>2
<1> QED
  BY <1>1, <1>2, PTL DEF Spec, Turn!Spec

-----------------------------------------------------------------------------
(* Induction over the naturals, of a set instead of a predicate. *)
LEMMA SetInduction ==
  ASSUME NEW S, 0 \in S, \A n \in Nat : n \in S => n + 1 \in S
  PROVE  \A n \in Nat : n \in S
<1> DEFINE T == {n \in Nat : n \notin S}
           R == OpToRel(<, Nat)
<1>1. IsWellFoundedOn(R, Nat)
  BY NatLessThanWellFounded
<1>2. ASSUME T # {}
      PROVE  FALSE
  <2>1. PICK x \in T : \A y \in T : ~(<<y, x>> \in R)
    <3> HIDE DEF R
    <3> QED
      BY <1>1, <1>2, WFMin
  <2>2. x # 0 /\ x \in Nat
    OBVIOUS
  <2>3. x - 1 \in Nat /\ x - 1 < x /\ (x - 1) + 1 = x
    BY <2>2
  <2>4. x - 1 \in T
    BY <2>2, <2>3
  <2>5. <<x - 1, x>> \in R
    BY <2>2, <2>3 DEF OpToRel
  <2> QED
    BY <2>1, <2>4, <2>5
<1> QED
  BY <1>2

(* g is the path of the actions c up to turn n. *)
IsPathTo(g, c, n) ==
  /\ DOMAIN g = 0 .. n
  /\ g[0] = Opening
  /\ \A t \in 1 .. n : g[t] = PlayedOn(g[t - 1], c["police"][t], c["thief"][t])

(* Two lists of actions agree up to turn n. *)
SameUpTo(c, d, n) ==
  \A t \in 1 .. n : c["police"][t] = d["police"][t] /\ c["thief"][t] = d["thief"][t]

(* There is one, *)
LEMMA PathToExists ==
  ASSUME NEW c, NEW n \in Nat
  PROVE  \E g : IsPathTo(g, c, n)
<1> DEFINE S == {m \in Nat : \E g : IsPathTo(g, c, m)}
<1>1. 0 \in S
  <2>1. IsPathTo([t \in 0 .. 0 |-> Opening], c, 0)
    BY DEF IsPathTo
  <2> QED
    BY <2>1
<1>2. ASSUME NEW m \in Nat, m \in S
      PROVE  m + 1 \in S
  <2>1. PICK g : IsPathTo(g, c, m)
    BY <1>2
  <2> DEFINE h == [t \in 0 .. m + 1 |->
                     IF t = m + 1
                     THEN PlayedOn(g[m], c["police"][t], c["thief"][t])
                     ELSE g[t]]
  <2>2. DOMAIN h = 0 .. m + 1 /\ h[0] = Opening
    BY <2>1 DEF IsPathTo
  <2>3. ASSUME NEW t \in 1 .. m + 1
        PROVE  h[t] = PlayedOn(h[t - 1], c["police"][t], c["thief"][t])
    <3>1. t - 1 \in 0 .. m + 1 /\ t - 1 # m + 1 /\ t \in 0 .. m + 1
      OBVIOUS
    <3>2. h[t - 1] = g[t - 1]
      BY <3>1
    <3>3. CASE t = m + 1
      <4>1. h[t] = PlayedOn(g[m], c["police"][t], c["thief"][t]) /\ t - 1 = m
        BY <3>1, <3>3
      <4> QED
        BY <4>1, <3>2
    <3>4. CASE t # m + 1
      <4>1. h[t] = g[t] /\ t \in 1 .. m
        BY <3>1, <3>4
      <4> QED
        BY <4>1, <3>2, <2>1 DEF IsPathTo
    <3> QED
      BY <3>3, <3>4
  <2>4. IsPathTo(h, c, m + 1)
    <3> HIDE DEF h
    <3> QED
      BY <2>2, <2>3 DEF IsPathTo
  <2> QED
    BY <2>4
<1> HIDE DEF S
<1>3. \A m \in Nat : m \in S
  BY <1>1, <1>2, SetInduction
<1> QED
  BY <1>3 DEF S

(* and actions that agree up to a turn have the same path to it. *)
LEMMA PathToUnique ==
  ASSUME NEW c, NEW d, NEW g, NEW h, NEW n \in Nat, NEW k \in Nat,
         IsPathTo(g, c, n), IsPathTo(h, d, k), NEW i \in Nat, i <= n, i <= k,
         SameUpTo(c, d, i)
  PROVE  g[i] = h[i]
<1> DEFINE S == {m \in Nat : m <= i => g[m] = h[m]}
<1>1. 0 \in S
  BY DEF IsPathTo
<1>2. ASSUME NEW m \in Nat, m \in S
      PROVE  m + 1 \in S
  <2>1. CASE m + 1 <= i
    <3> DEFINE t == m + 1
    <3>1. t \in 1 .. i /\ t \in 1 .. n /\ t \in 1 .. k /\ t - 1 = m /\ m <= i
      BY <2>1
    <3>2. g[m] = h[m]
      BY <1>2, <3>1
    <3>3. /\ g[t] = PlayedOn(g[m], c["police"][t], c["thief"][t])
          /\ h[t] = PlayedOn(h[m], d["police"][t], d["thief"][t])
      BY <3>1 DEF IsPathTo
    <3> QED
      BY <3>1, <3>2, <3>3 DEF SameUpTo
  <2> QED
    BY <2>1
<1> HIDE DEF S
<1>3. i \in S
  BY <1>1, <1>2, SetInduction
<1> QED
  BY <1>3 DEF S

(* The path is well defined. *)
LEMMA PathEquations ==
  ASSUME NEW c
  PROVE  /\ Path(c)[0] = Opening
         /\ \A t \in Nat : t # 0 =>
              Path(c)[t] = PlayedOn(Path(c)[t - 1], c["police"][t], c["thief"][t])
<1> DEFINE G(n) == CHOOSE g : IsPathTo(g, c, n)
           p == [t \in Nat |-> G(t)[t]]
<1>1. \A n \in Nat : IsPathTo(G(n), c, n)
  BY PathToExists
<1> HIDE DEF G
<1>2. p[0] = Opening
  BY <1>1 DEF IsPathTo
<1>3. ASSUME NEW t \in Nat, t # 0
      PROVE  p[t] = PlayedOn(p[t - 1], c["police"][t], c["thief"][t])
  <2>1. t - 1 \in Nat /\ t - 1 <= t /\ t \in 1 .. t
    BY <1>3
  <2>2. G(t)[t] = PlayedOn(G(t)[t - 1], c["police"][t], c["thief"][t])
    BY <1>1, <2>1 DEF IsPathTo
  <2>3. G(t)[t - 1] = G(t - 1)[t - 1]
    <3>1. /\ IsPathTo(G(t), c, t)
          /\ IsPathTo(G(t - 1), c, t - 1)
          /\ t - 1 <= t - 1
          /\ SameUpTo(c, c, t - 1)
      BY <1>1, <2>1 DEF SameUpTo
    <3> QED
      BY <3>1, <2>1, PathToUnique
  <2> QED
    BY <2>1, <2>2, <2>3
<1>4. p = [t \in Nat |-> IF t = 0 THEN Opening
                         ELSE PlayedOn(p[t - 1], c["police"][t], c["thief"][t])]
  <2> HIDE DEF p
  <2>1. p = [t \in Nat |-> p[t]]
    BY DEF p
  <2> QED
    BY <1>2, <1>3, <2>1
<1>5. Path(c) = [t \in Nat |-> IF t = 0 THEN Opening
                  ELSE PlayedOn(Path(c)[t - 1], c["police"][t], c["thief"][t])]
  <2> HIDE DEF p
  <2> QED
    BY <1>4 DEF Path
<1> HIDE DEF p
<1>6. ASSUME NEW t \in Nat
      PROVE  Path(c)[t] = IF t = 0 THEN Opening
               ELSE PlayedOn(Path(c)[t - 1], c["police"][t], c["thief"][t])
  BY <1>5
<1> QED
  BY <1>6

(* Every initial part of the path is a path. *)
LEMMA PathIsPath ==
  ASSUME NEW c, NEW n \in Nat
  PROVE  IsPathTo([t \in 0 .. n |-> Path(c)[t]], c, n)
<1> DEFINE p == Path(c)
<1>1. /\ p[0] = Opening
      /\ \A t \in Nat : t # 0 =>
           p[t] = PlayedOn(p[t - 1], c["police"][t], c["thief"][t])
  BY PathEquations
<1> HIDE DEF p
<1>2. \A t \in 1 .. n : t \in Nat /\ t # 0 /\ t \in 0 .. n /\ t - 1 \in 0 .. n
  OBVIOUS
<1> QED
  BY <1>1, <1>2 DEF IsPathTo, p

(* Later turns do not change the path. *)
LEMMA PathKept ==
  ASSUME NEW c, NEW d, NEW n \in Nat, SameUpTo(c, d, n)
  PROVE  \A t \in 0 .. n : Path(c)[t] = Path(d)[t]
<1> SUFFICES ASSUME NEW i \in 0 .. n
             PROVE  Path(c)[i] = Path(d)[i]
  OBVIOUS
<1> DEFINE g == [t \in 0 .. i |-> Path(c)[t]]
           h == [t \in 0 .. i |-> Path(d)[t]]
<1>1. /\ IsPathTo(g, c, i) /\ IsPathTo(h, d, i)
      /\ i \in Nat /\ i <= i
      /\ SameUpTo(c, d, i)
  BY PathIsPath DEF SameUpTo
<1>2. g[i] = Path(c)[i] /\ h[i] = Path(d)[i]
  BY <1>1
<1> HIDE DEF g, h
<1>3. g[i] = h[i]
  BY <1>1, PathToUnique
<1> QED
  BY <1>2, <1>3

-----------------------------------------------------------------------------
(* What the steps of a match leave alone. *)

(* Nothing in the live part reads whether a peer failed. *)
LEMMA StoppingKeeps ==
  ASSUME LiveInvariant, UNCHANGED <<chosen, seen, state, believed>>,
         failed' \in [Role -> BOOLEAN]
  PROVE  LiveInvariant'
<1>1. TypeOK'
  BY DEF LiveInvariant, TypeOK
<1> QED
  BY <1>1
  DEF LiveInvariant, Paced, PendingIsChoice, ThiefOnlyMoves, BoardsDiffer,
      ThiefTracksCop, Ahead, Own, Theirs

(* A match with claims keeps what one without them keeps. *)
LEMMA ClaimNextIsLive ==
  ASSUME LiveInvariant, ClaimNext
  PROVE  LiveInvariant'
<1>1. ASSUME NEW r \in Role, Play(r)
      PROVE  LiveInvariant'
  <2>1. Next
    BY <1>1 DEF Play, Next, LiveStep
  <2> QED
    BY <2>1, NextKeeps
<1>2. ASSUME UNCHANGED liveVars
      PROVE  LiveInvariant'
  BY <1>2, NextKeeps
<1>3. ASSUME NEW r \in Role, OpponentStopped(r)
      PROVE  LiveInvariant'
  <2>1. failed' \in [Role -> BOOLEAN]
    BY <1>3 DEF OpponentStopped, LiveInvariant, TypeOK
  <2> QED
    BY <1>3, <2>1, StoppingKeeps DEF OpponentStopped
<1>4. CASE ClaimFails
  <2>1. failed' \in [Role -> BOOLEAN]
    BY <1>4 DEF ClaimFails, LiveInvariant, TypeOK
  <2> QED
    BY <1>4, <2>1, StoppingKeeps DEF ClaimFails
<1> QED
  BY <1>1, <1>2, <1>3, <1>4 DEF ClaimNext, ClaimCapture, AnswerClaim, RecordResponse

(* A choice adds to one list of actions, after the turns already applied. *)
LEMMA ChoiceIsLater ==
  ASSUME LiveInvariant, NEW r \in Role, ChooseAction(r)
  PROVE  /\ SameUpTo(chosen, chosen', Turns)
         /\ UNCHANGED <<seen, state, believed, failed>>
         /\ r # "police" => chosen'["police"] = chosen["police"]
<1>1. PICK a \in Choices(state[r]) : Turn!Choose(r, a)
  BY DEF ChooseAction
<1>2. UNCHANGED <<state, believed, failed>> /\ TypeOK /\ state[r] \in LocalState
  BY DEF ChooseAction, LiveInvariant, TypeOK
<1>3. a \in BoardAction
  BY <1>1, <1>2, ChoicesTyped
<1>4. /\ chosen[r] \in Seq(BoardAction)
      /\ chosen'[r] = Append(chosen[r], a)
      /\ \A s \in Role : s # r => chosen'[s] = chosen[s]
      /\ seen' = seen
  BY <1>1, <1>2, <1>3, ChooseTyped
<1>5. /\ "police" \in Role /\ "thief" \in Role
      /\ Turns \in Nat /\ \A s \in Role : Len(chosen[s]) \in Nat /\ Turns <= Len(chosen[s])
  BY PaceBounds DEF LiveInvariant, Role, Turns
<1>6. \A s \in Role : \A t \in 1 .. Turns : chosen'[s][t] = chosen[s][t]
  <2> SUFFICES ASSUME NEW s \in Role, NEW t \in 1 .. Turns
               PROVE  chosen'[s][t] = chosen[s][t]
    OBVIOUS
  <2>1. t \in 1 .. Len(chosen[s])
    BY <1>5
  <2>2. CASE s = r
    BY <2>1, <2>2, <1>3, <1>4, AppendKeeps
  <2>3. CASE s # r
    BY <2>3, <1>4
  <2> QED
    BY <2>2, <2>3
<1> QED
  BY <1>2, <1>4, <1>5, <1>6 DEF SameUpTo

(* What the cop's own turn does, in the terms of the path. *)
LEMMA CopTurnIsPlayedOn ==
  ASSUME LiveInvariant, ApplyTurn("police")
  PROVE  LET a == chosen["police"][Turns + 1]
             b == chosen["thief"][Turns + 1]
         IN  /\ a \in BoardAction /\ b \in BoardAction
             /\ Legal(state["police"], a)
             /\ Turns' = Turns + 1
             /\ PlayedOn([cop |-> state["police"], thief |-> believed["police"]], a, b)
                  = [cop |-> state'["police"], thief |-> believed'["police"]]
<1> DEFINE a == chosen["police"][Turns + 1]
           b == chosen["thief"][Turns + 1]
<1>1. "police" \in Role /\ "thief" \in Role /\ Opponent("police") = "thief"
  BY DEF Role, Opponent
<1>2. Own("police") = a /\ Theirs("police") = b
  BY <1>1 DEF Own, Theirs, Turns
<1>3. /\ a \in BoardAction /\ b \in BoardAction /\ Legal(state["police"], a)
      /\ Turns < Len(chosen["thief"])
      /\ Turns' = Turns + 1
  BY <1>1, <1>2, ApplyTyped DEF Turns
<1>4. b.kind = "move"
  <2>1. Turns \in Nat /\ Len(chosen["thief"]) \in Nat
    BY PaceBounds DEF LiveInvariant, Turns
  <2>2. Turns + 1 \in 1 .. Len(chosen["thief"])
    BY <2>1, <1>3
  <2>3. DOMAIN chosen["thief"] = 1 .. Len(chosen["thief"])
    BY <1>1, LenProperties DEF LiveInvariant, TypeOK
  <2> QED
    BY <2>2, <2>3 DEF LiveInvariant, ThiefOnlyMoves
<1>5. /\ state'["police"] = AfterTurn(state["police"], a, b)
      /\ believed'["police"] =
           Reckoned(AfterTurn(state["police"], a, b), believed["police"], b)
  BY <1>1, <1>2 DEF ApplyTurn, LiveInvariant, TypeOK
<1>6. AfterTurn(state["police"], a, b) = Applied(state["police"], a)
  BY <1>4 DEF AfterTurn, Observed, Applied
<1> HIDE DEF a, b
<1> QED
  BY <1>3, <1>5, <1>6 DEF PlayedOn, a, b

-----------------------------------------------------------------------------
(* The path. *)

(* It stands whatever happens that is not a turn of the cop. *)
LEMMA PathStands ==
  ASSUME LiveInvariant, PathAgrees, SameUpTo(chosen, chosen', Turns),
         seen'["police"] = seen["police"], state'["police"] = state["police"],
         believed'["police"] = believed["police"]
  PROVE  PathAgrees'
<1>1. Turns \in Nat /\ Turns' = Turns
  BY PaceBounds DEF LiveInvariant, Turns
<1> DEFINE p == Path(chosen)
           q == Path(chosen')
<1>2. \A t \in 0 .. Turns : p[t] = q[t]
  BY <1>1, PathKept
<1>3. \A t \in 1 .. Turns : chosen'["police"][t] = chosen["police"][t]
  BY DEF SameUpTo
<1>4. /\ \A t \in 0 .. Turns : p[t] \in [cop : LocalState, thief : Cells]
      /\ \A t \in 1 .. Turns : Legal(p[t - 1].cop, chosen["police"][t])
      /\ p[Turns] = [cop |-> state["police"], thief |-> believed["police"]]
  BY DEF PathAgrees
<1> HIDE DEF p, q
<1>5. \A t \in 1 .. Turns : t - 1 \in 0 .. Turns
  BY <1>1
<1>6. /\ \A t \in 0 .. Turns : q[t] \in [cop : LocalState, thief : Cells]
      /\ \A t \in 1 .. Turns : Legal(q[t - 1].cop, chosen'["police"][t])
      /\ q[Turns] = [cop |-> state'["police"], thief |-> believed'["police"]]
  BY <1>1, <1>2, <1>3, <1>4, <1>5
<1> QED
  BY <1>1, <1>6 DEF PathAgrees, q

(* A turn of the cop goes on along it. *)
LEMMA PathGrows ==
  ASSUME LiveInvariant, PathAgrees, ApplyTurn("police")
  PROVE  PathAgrees'
<1> DEFINE p == Path(chosen)
           a == chosen["police"][Turns + 1]
           b == chosen["thief"][Turns + 1]
           here == [cop |-> state["police"], thief |-> believed["police"]]
           there == [cop |-> state'["police"], thief |-> believed'["police"]]
<1>1. Turns \in Nat /\ Turns' = Turns + 1 /\ chosen' = chosen
  <2>1. chosen' = chosen
    BY DEF ApplyTurn, Turn!See
  <2> QED
    BY <2>1, PaceBounds, CopTurnIsPlayedOn DEF LiveInvariant, Turns
<1>2. Legal(state["police"], a) /\ PlayedOn(here, a, b) = there
  BY CopTurnIsPlayedOn
<1>3. /\ \A t \in 0 .. Turns : p[t] \in [cop : LocalState, thief : Cells]
      /\ \A t \in 1 .. Turns : Legal(p[t - 1].cop, chosen["police"][t])
      /\ p[Turns] = here
  BY DEF PathAgrees
<1>4. p[Turns + 1] = PlayedOn(p[Turns], a, b)
  <2>1. Turns + 1 \in Nat /\ Turns + 1 # 0 /\ (Turns + 1) - 1 = Turns
    BY <1>1
  <2> HIDE DEF p
  <2>2. \A t \in Nat : t # 0 =>
          p[t] = PlayedOn(p[t - 1], chosen["police"][t], chosen["thief"][t])
    BY PathEquations DEF p
  <2> QED
    BY <2>1, <2>2
<1>5. there \in [cop : LocalState, thief : Cells]
  <2>1. TypeOK' /\ "police" \in Role
    BY NextKeeps DEF Next, LiveStep, LiveInvariant, Role
  <2> QED
    BY <2>1 DEF TypeOK
<1>6. here.cop = state["police"]
  OBVIOUS
<1> HIDE DEF p, a, b, here, there
<1>7. p[Turns + 1] = there
  BY <1>2, <1>3, <1>4
<1>8. ASSUME NEW t \in 0 .. Turns + 1
      PROVE  p[t] \in [cop : LocalState, thief : Cells]
  <2>1. t = Turns + 1 \/ t \in 0 .. Turns
    BY <1>1
  <2> QED
    BY <2>1, <1>3, <1>5, <1>7
<1>9. ASSUME NEW t \in 1 .. Turns + 1
      PROVE  Legal(p[t - 1].cop, chosen["police"][t])
  <2>1. CASE t = Turns + 1
    <3>1. t - 1 = Turns
      BY <2>1, <1>1
    <3> QED
      BY <3>1, <2>1, <1>2, <1>3, <1>6 DEF a
  <2>2. CASE t # Turns + 1
    <3>1. t \in 1 .. Turns
      BY <2>2, <1>1
    <3> QED
      BY <3>1, <1>3
  <2> QED
    BY <2>1, <2>2
<1> QED
  BY <1>1, <1>7, <1>8, <1>9 DEF PathAgrees, p, there

-----------------------------------------------------------------------------
(* Claims. *)

(* A surrounded thief is one whatever else its state holds. *)
LEMMA TrappedByItsCell ==
  ASSUME NEW s
  PROVE  IsTrapped(s) <=> IsTrapped([position |-> s.position, barriers |-> s.barriers])
BY DEF IsTrapped, MoveLegal, IsPassable

(* What a claim says stands while later turns are chosen and applied. *)
LEMMA ClaimStands ==
  ASSUME LiveInvariant, ClaimInvariant, Turns \in Nat, Turns' \in Nat,
         Turns <= Turns', SameUpTo(chosen, chosen', Turns),
         UNCHANGED <<claim, pending>>, failed["police"] => failed'["police"],
         Unsettled \/ claim.verdict = "confirm" =>
           Turns' = Turns /\ chosen'["police"] = chosen["police"],
         claim.verdict = "confirm" => seen'["thief"] = seen["thief"]
  PROVE  ClaimInvariant'
<1> DEFINE turn == claim.turn
<1>0. /\ claim.phase # "none" => turn \in 1 .. Turns
      /\ turn' = turn
  BY DEF ClaimInvariant
<1> HIDE DEF turn
<1>1. /\ claim' = claim /\ pending' = pending
      /\ Unsettled' = Unsettled
  BY DEF Unsettled
<1>2. claim.phase # "none" => turn' \in 1 .. Turns'
  BY <1>0
<1>6. claim.phase = "failed" => failed'["police"]
  BY DEF ClaimInvariant
<1>3. Unsettled => Turns' = claim.turn /\ Len(chosen'["police"]) = claim.turn
  BY DEF ClaimInvariant
<1>4. claim.verdict = "confirm" =>
        /\ Turns' = claim.turn
        /\ Len(chosen'["police"]) = claim.turn
        /\ Len(seen'["thief"]) = claim.turn
        /\ Unsettled \/ pending["police"] \/ failed'["police"]
  BY DEF ClaimInvariant
<1>5. ASSUME claim.verdict # ""
      PROVE  AnswerIsTruthful'
  <2>1. turn \in 1 .. Turns /\ AnswerIsTruthful
    BY <1>0, <1>5 DEF ClaimInvariant
  <2>2. chosen'["police"][turn] = chosen["police"][turn]
    BY <2>1 DEF SameUpTo
  <2>3. Path(chosen')[turn] = Path(chosen)[turn]
    <3>1. turn \in 0 .. Turns
      BY <2>1
    <3> QED
      BY <3>1, PathKept
  <2>4. ClaimHolds' = ClaimHolds
    BY <1>1, <2>2, <2>3 DEF ClaimHolds, turn
  <2> QED
    BY <1>1, <2>1, <2>4 DEF AnswerIsTruthful
<1> QED
  BY <1>1, <1>2, <1>3, <1>4, <1>5, <1>6 DEF ClaimInvariant, turn

LEMMA SameIsSame ==
  ASSUME UNCHANGED chosen
  PROVE  SameUpTo(chosen, chosen', Turns)
BY DEF SameUpTo

(* Playing leaves a claim alone; a confirmed one leaves no turn to play. *)
LEMMA PlayKeepsClaim ==
  ASSUME LiveInvariant, ClaimTyped, ClaimInvariant, NEW r \in Role, Play(r)
  PROVE  /\ ClaimInvariant'
         /\ SameUpTo(chosen, chosen', Turns)
         /\ Turns' \in Nat /\ Turns <= Turns'
<1>1. /\ "police" \in Role /\ "thief" \in Role
      /\ Opponent("police") = "thief" /\ Opponent("thief") = "police"
      /\ r = "police" \/ r = "thief"
  BY DEF Role, Opponent
<1>2. /\ Turns \in Nat
      /\ Len(seen["thief"]) \in Nat
      /\ Len(chosen["police"]) \in Nat
  BY PaceBounds DEF LiveInvariant, Turns
<1>3. UNCHANGED <<claim, pending>>
  BY DEF Play, claimVars
<1>4. /\ Unsettled => Turns = claim.turn /\ Len(chosen["police"]) = claim.turn
      /\ claim.verdict = "confirm" =>
           /\ Turns = claim.turn
           /\ Len(chosen["police"]) = claim.turn
           /\ Len(seen["thief"]) = claim.turn
           /\ Unsettled \/ pending["police"] \/ failed["police"]
  BY DEF ClaimInvariant
<1>5. CASE MayChoose(r) /\ ChooseAction(r)
  <2>1. /\ SameUpTo(chosen, chosen', Turns)
        /\ UNCHANGED <<seen, state, believed, failed>>
        /\ r # "police" => chosen'["police"] = chosen["police"]
    BY <1>5, ChoiceIsLater
  <2>2. r = "police" => ~Unsettled /\ claim.verdict # "confirm"
    BY <1>4, <1>5 DEF MayChoose, ChooseAction
  <2>3. Turns' = Turns
    BY <2>1 DEF Turns
  <2> QED
    BY <1>2, <1>3, <2>1, <2>2, <2>3, ClaimStands
<1>6. CASE ApplyTurn(r)
  <2>1. /\ Len(seen[r]) < Len(chosen["police"])
        /\ UNCHANGED <<chosen, failed>>
        /\ Len(seen'[r]) = Len(seen[r]) + 1
        /\ \A s \in Role : s # r => seen'[s] = seen[s]
    BY <1>1, <1>6, ApplyTyped, ZenonT(60) DEF ApplyTurn
  <2>2. Turns' = IF r = "police" THEN Turns + 1 ELSE Turns
    BY <1>1, <2>1 DEF Turns
  <2>3. SameUpTo(chosen, chosen', Turns)
    BY <2>1, SameIsSame
  <2>4. Unsettled => r # "police"
    BY <1>2, <1>4, <2>1 DEF Turns
  <2>5. claim.verdict # "confirm"
    BY <1>1, <1>2, <1>4, <2>1 DEF Turns
  <2>6. Unsettled => Turns' = Turns
    BY <2>2, <2>4
  <2>7. Turns' \in Nat /\ Turns <= Turns'
    BY <1>2, <2>2
  <2> QED
    BY <2>1, <2>3, <2>5, <2>6, <2>7, <1>2, <1>3, ClaimStands
<1>7. CASE OwnActionIllegal(r)
  <2>1. /\ UNCHANGED <<chosen, seen, state, believed>>
        /\ failed["police"] => failed'["police"]
    BY <1>1, <1>7 DEF OwnActionIllegal, LiveInvariant, TypeOK
  <2>2. SameUpTo(chosen, chosen', Turns) /\ Turns' = Turns
    BY <2>1, SameIsSame DEF Turns
  <2> QED
    BY <1>2, <1>3, <2>1, <2>2, ClaimStands
<1> QED
  BY <1>5, <1>6, <1>7 DEF Play

(* The cop's caller claims the turn both lists end with. *)
LEMMA ClaimingKeeps ==
  ASSUME LiveInvariant, ClaimTyped, ClaimInvariant,
         NEW kind \in ClaimKinds, ClaimCapture(kind)
  PROVE  ClaimTyped' /\ ClaimInvariant'
<1>1. /\ Turns \in Nat /\ Turns > 0
      /\ Len(chosen["police"]) = Turns
      /\ claim' = [claim EXCEPT !.phase = "sent", !.turn = Turns, !.kind = kind]
      /\ claim.phase = "none"
      /\ UNCHANGED <<liveVars, pending>>
  BY PaceBounds DEF LiveInvariant, Turns, ClaimCapture
<1>2. kind \in CLAIM_KINDS
  BY ClaimAssumption
<1>3. claim.verdict = ""
  BY <1>1 DEF ClaimInvariant
<1>4. /\ claim'.phase = "sent" /\ claim'.turn = Turns /\ claim'.kind = kind
      /\ claim'.verdict = "" /\ claim'.cell = claim.cell
  BY <1>1, <1>3 DEF ClaimTyped
<1>5. ClaimTyped'
  BY <1>1, <1>2 DEF ClaimTyped
<1>6. Turns' = Turns /\ chosen' = chosen
  BY <1>1 DEF Turns, liveVars
<1>7. Turns \in 1 .. Turns
  BY <1>1
<1> QED
  BY <1>1, <1>2, <1>4, <1>5, <1>6, <1>7 DEF ClaimInvariant, Unsettled

(* The thief answers from a board the cop's equals: no turn separates them. *)
LEMMA AnsweringKeeps ==
  ASSUME LiveInvariant, PathAgrees, ClaimTyped, ClaimInvariant, AnswerClaim
  PROVE  ClaimTyped' /\ ClaimInvariant'
<1> DEFINE cell == state["thief"].position
           v == TruthfulVerdict
           turn == claim.turn
<1>1. /\ claim.phase = "sent" /\ turn = Len(seen["thief"])
      /\ claim' = [claim EXCEPT !.phase = "answered", !.verdict = v, !.cell = cell]
      /\ pending' = [pending EXCEPT !["thief"] = v = "confirm"]
      /\ UNCHANGED liveVars
  BY DEF AnswerClaim
<1>2. /\ turn = Turns /\ Len(chosen["police"]) = turn
      /\ turn \in 1 .. Turns /\ claim.kind \in CLAIM_KINDS
  BY <1>1 DEF ClaimInvariant, Unsettled
<1>3. /\ "police" \in Role /\ "thief" \in Role
      /\ state["thief"] \in LocalState /\ cell \in Cells
  <2>1. "thief" \in Role /\ "police" \in Role /\ state["thief"] \in LocalState
    BY DEF LiveInvariant, TypeOK, Role
  <2> QED
    BY <2>1, FieldsOfState
<1>4. Path(chosen)[turn].cop = state["police"]
  BY <1>2 DEF PathAgrees
<1>5. state["police"].barriers = state["thief"].barriers
  <2>1. Turns \in Nat /\ Ahead = 0
    BY <1>1, <1>2, PaceBounds DEF LiveInvariant, Turns, Ahead
  <2> QED
    BY <2>1 DEF LiveInvariant, BoardsDiffer
<1>6. IsTrapped(state["thief"])
        <=> IsTrapped([position |-> cell, barriers |-> Path(chosen)[turn].cop.barriers])
  BY <1>4, <1>5, TrappedByItsCell
<1>7. /\ v = IF claim.kind = "landed" THEN "audit_required"
             ELSE IF (IF claim.kind = "barrier_on_thief"
                      THEN BarrierCapture(chosen["police"][turn], cell) # ""
                      ELSE IsTrapped(state["thief"]))
                  THEN "confirm" ELSE "deny"
      /\ v \in {"confirm", "deny", "audit_required"}
  BY DEF TruthfulVerdict
<1> HIDE DEF v, cell
<1>8. /\ claim'.phase = "answered" /\ claim'.turn = turn
      /\ claim'.kind = claim.kind /\ claim'.verdict = v /\ claim'.cell = cell
  BY <1>1 DEF ClaimTyped
<1>9. ClaimTyped'
  <2>1. claim' \in [phase : {"none", "sent", "answered", "recorded", "failed"},
                    turn : Nat, kind : CLAIM_KINDS \cup {""},
                    verdict : {"", "confirm", "deny", "audit_required"},
                    cell : Cells \cup {<<>>}]
    BY <1>1, <1>3, <1>7 DEF ClaimTyped
  <2>2. pending' \in [Role -> BOOLEAN]
    BY <1>1 DEF ClaimTyped
  <2> QED
    BY <2>1, <2>2 DEF ClaimTyped
<1>10. Turns' = Turns /\ chosen' = chosen /\ seen' = seen
  BY <1>1 DEF Turns, liveVars
<1>11. ClaimHolds' <=> IF claim.kind = "barrier_on_thief"
                       THEN BarrierCapture(chosen["police"][turn], cell) # ""
                       ELSE IsTrapped(state["thief"])
  BY <1>6, <1>8, <1>10 DEF ClaimHolds
<1>12. AnswerIsTruthful'
  BY <1>3, <1>7, <1>8, <1>11 DEF AnswerIsTruthful
<1>13. Unsettled'
  BY <1>8 DEF Unsettled
<1> QED
  BY <1>1, <1>2, <1>7, <1>8, <1>9, <1>10, <1>12, <1>13 DEF ClaimInvariant

(* The answer reaches the cop, or does not. *)
LEMMA SettlingKeeps ==
  ASSUME LiveInvariant, ClaimTyped, ClaimInvariant,
         RecordResponse \/ ClaimFails
  PROVE  ClaimTyped' /\ ClaimInvariant'
<1>1. /\ Turns' = Turns /\ chosen' = chosen /\ seen' = seen
      /\ Unsettled
  BY DEF RecordResponse, ClaimFails, Turns, liveVars, Unsettled
<1>2. "police" \in Role
  BY DEF Role
<1>3. PICK p \in {"recorded", "failed"} :
        /\ claim' = [claim EXCEPT !.phase = p]
        /\ p = "recorded" => claim.phase = "answered"
        /\ p = "failed" => failed'["police"]
  BY <1>2 DEF RecordResponse, ClaimFails, LiveInvariant, TypeOK
<1>4. /\ claim'.phase = p /\ claim'.turn = claim.turn
      /\ claim'.kind = claim.kind /\ claim'.verdict = claim.verdict
      /\ claim'.cell = claim.cell
  BY <1>3 DEF ClaimTyped
<1>5. ClaimTyped'
  <2>1. pending' \in [Role -> BOOLEAN]
    BY DEF RecordResponse, ClaimFails, ClaimTyped
  <2> QED
    BY <1>3, <2>1 DEF ClaimTyped
<1>6. claim.verdict = "confirm" => pending'["police"] \/ failed'["police"]
  BY <1>2 DEF RecordResponse, ClaimFails, ClaimTyped, LiveInvariant, TypeOK
<1>7. claim.verdict # "" => AnswerIsTruthful'
  BY <1>1, <1>4 DEF ClaimInvariant, AnswerIsTruthful, ClaimHolds
<1>8. ~Unsettled'
  BY <1>4 DEF Unsettled
<1> QED
  BY <1>1, <1>3, <1>4, <1>5, <1>6, <1>7, <1>8 DEF ClaimInvariant, Unsettled

-----------------------------------------------------------------------------
(* The reconstruction. *)

(* It stands while the match goes on: what it has replayed is past. *)
LEMMA ReplayStands ==
  ASSUME LiveInvariant, ReplayTyped, ReplayAgrees, AnswersStandOtherwise,
         UNCHANGED replay, SameUpTo(chosen, chosen', Turns),
         Turns' \in Nat, Turns <= Turns',
         claim.phase = "recorded" => claim' = claim
  PROVE  ReplayTyped' /\ ReplayAgrees' /\ AnswersStandOtherwise'
<1> DEFINE turn == replay.turn
<1>1. turn \in 0 .. Turns /\ Turns \in Nat
  BY PaceBounds DEF ReplayTyped, LiveInvariant, Turns
<1>2. 0 .. Turns \subseteq 0 .. Turns'
  BY <1>1
<1>3. ReplayTyped'
  BY <1>2 DEF ReplayTyped
<1>4. Path(chosen')[turn] = Path(chosen)[turn]
  BY <1>1, PathKept
<1>5. ReplayAgrees'
  BY <1>4 DEF ReplayAgrees
<1>6. AnswersStandOtherwise'
  BY DEF ReplayAgrees, AnswersStandOtherwise
<1> QED
  BY <1>3, <1>5, <1>6

(* What a full turn ends in. *)
LEMMA TerminalIs ==
  ASSUME NEW cop, NEW thief, NEW t \in Nat
  PROVE  LET x == TurnTerminal(t, cop, thief)
         IN  /\ x \in {"", "cop_landed_on_thief", "thief_has_no_legal_move", "survival"}
             /\ x = "thief_has_no_legal_move" => IsTrapped(thief)
             /\ x = "survival" => ~IsTrapped(thief)
BY BoardAssumption DEF TurnTerminal, FullTurnCapture, MovementCapture

LEMMA LastTurn ==
  ASSUME NEW n \in Nat
  PROVE  /\ \A i \in 0 .. n : ~(i < n) => i = n
         /\ \A i \in 1 .. n : i \in Nat /\ i # 0
OBVIOUS

LEMMA NextTurn ==
  ASSUME NEW n \in Nat, NEW i \in 0 .. n, i < n
  PROVE  LET t == i + 1
         IN  /\ t \in Nat /\ t # 0 /\ t - 1 = i /\ t \in 1 .. n /\ t \in 0 .. n
             /\ \A k \in Nat : n <= k => t \in 1 .. k
OBVIOUS

(* A turn of the reconstruction: the cop is on the path and its action was  *)
(* legal there, so it cannot be accused; the thief stands still where the   *)
(* cop's reckoning makes it.                                                *)
LEMMA TurnKeeps ==
  ASSUME LiveInvariant, PathAgrees, ReplayTyped, ReplayAgrees, ReplayTurn
  PROVE  ReplayTyped' /\ ReplayAgrees' /\ AnswersStandOtherwise'
<1> DEFINE a == chosen["police"][replay.turn + 1]
           b == chosen["thief"][replay.turn + 1]
           t == replay.turn + 1
           p == Path(chosen)
           here == p[replay.turn]
           cop == Applied(replay.cop, a)
           told == Observed(replay.thief, a)
           caught == BarrierCapture(a, told.position)
           resolved == Resolved(told, b)
           thief == Applied(told, resolved)
<1>1. /\ replay.verdict = "" /\ replay.terminal = ""
      /\ replay' = ReplayedTurn(replay, a, b)
      /\ UNCHANGED playVars
      /\ replay.turn < Turns
      /\ replay.turn \in 0 .. Turns /\ Turns \in Nat
      /\ replay.cop \in LocalState /\ replay.thief \in LocalState
  BY PaceBounds DEF ReplayTurn, ReplayTyped, LiveInvariant, Turns
<1>2. t \in Nat /\ t # 0 /\ t - 1 = replay.turn /\ t \in 1 .. Turns /\ t \in 0 .. Turns
  BY <1>1, NextTurn
<1>3. a \in BoardAction /\ b \in BoardAction /\ b.kind = "move"
  <2>1. /\ "police" \in Role /\ "thief" \in Role
        /\ Len(chosen["police"]) \in Nat /\ Len(chosen["thief"]) \in Nat
        /\ Turns <= Len(chosen["police"]) /\ Turns <= Len(chosen["thief"])
    BY PaceBounds DEF LiveInvariant, Role, Turns
  <2>2. t \in 1 .. Len(chosen["police"]) /\ t \in 1 .. Len(chosen["thief"])
    <3> HIDE DEF t
    <3>1. \A k \in Nat : Turns <= k => t \in 1 .. k
      BY <1>1, NextTurn DEF t
    <3> QED
      BY <3>1, <2>1
  <2>3. DOMAIN chosen["thief"] = 1 .. Len(chosen["thief"])
    BY <2>1, LenProperties DEF LiveInvariant, TypeOK
  <2> QED
    BY <2>1, <2>2, <2>3, ElementOfSeq DEF LiveInvariant, TypeOK, ThiefOnlyMoves
<1>4. /\ replay.cop = here.cop
      /\ replay.thief.position = here.thief
      /\ replay.thief.barriers = here.cop.barriers
      /\ here.thief \notin here.cop.barriers
      /\ replay.accused # "claim"
  BY <1>1 DEF ReplayAgrees
<1>5. Legal(replay.cop, a)
  BY <1>2, <1>4 DEF PathAgrees
<1>6. p[t] = PlayedOn(here, a, b)
  <2> HIDE DEF p
  <2>1. p[t] = PlayedOn(p[t - 1], chosen["police"][t], chosen["thief"][t])
    BY <1>2, PathEquations DEF p
  <2> QED
    BY <2>1, <1>2
<1>7. /\ cop \in LocalState
      /\ cop.barriers = here.cop.barriers \cup Placed(a)
  BY <1>1, <1>3, <1>4, <1>5, AppliedTyped
<1>8. /\ told \in LocalState
      /\ told.position = here.thief
      /\ told.barriers = cop.barriers
  BY <1>1, <1>3, <1>4, <1>7, ObservedTyped
<1>9. p[t].cop = cop /\ p[t].thief = Reckoned(cop, here.thief, b)
  BY <1>4, <1>6 DEF PlayedOn
<1>10. caught = "" => told.position \notin told.barriers
  <2>1. a.kind = "move" \/ (a.kind = "place_barrier" /\ Placed(a) = {a.cell})
    BY <1>3, KindOfAction
  <2>2. a.kind = "move" => Placed(a) = {}
    BY DEF Placed
  <2> QED
    BY <2>1, <2>2, <1>4, <1>7, <1>8 DEF BarrierCapture
<1>11. told.position \in Cells
  BY <1>8, FieldsOfState
<1>12. resolved \in BoardAction /\ resolved.kind = "move"
  BY <1>3, StandStillTyped DEF Resolved
<1>13. caught = "" /\ IsBlockedMove(told, b) => Legal(told, resolved)
  BY <1>10, <1>11, StayingStays, StandStillTyped
  DEF Resolved, Legal, MoveLegal, IsPassable
<1>14. ASSUME caught = "", Legal(told, resolved)
       PROVE  /\ thief \in LocalState
              /\ thief.position = p[t].thief
              /\ thief.barriers = cop.barriers
              /\ p[t].thief \notin cop.barriers
  <2>1. /\ thief \in LocalState
        /\ thief.position = Followed(told.position, resolved)
        /\ thief.barriers = told.barriers \cup Placed(resolved)
    BY <1>8, <1>12, <1>14, AppliedTyped
  <2>2. Placed(resolved) = {}
    BY <1>12 DEF Placed
  <2>3. Followed(told.position, resolved) = Reckoned(cop, here.thief, b)
    <3>1. CASE IsBlockedMove(told, b)
      <4>1. Followed(told.position, resolved) = told.position
        BY <3>1, <1>11, StayingStays, StandStillTyped DEF Resolved, Followed
      <4>2. ~IsPassable(cop, Shifted(here.thief, b.direction))
        BY <3>1, <1>8 DEF IsBlockedMove, IsPassable
      <4> QED
        BY <4>1, <4>2, <1>8 DEF Reckoned
    <3>2. CASE ~IsBlockedMove(told, b)
      <4>1. resolved = b
        BY <3>2 DEF Resolved
      <4>2. IsPassable(cop, Shifted(here.thief, b.direction))
        BY <4>1, <1>3, <1>8, <1>14 DEF Legal, MoveLegal, IsPassable
      <4> QED
        BY <4>1, <4>2, <1>3, <1>8 DEF Reckoned, Followed
    <3> QED
      BY <3>1, <3>2
  <2>4. Followed(told.position, resolved) \notin told.barriers
    BY <1>8, <1>12, <1>14, LegalActionIsFree
  <2> QED
    BY <2>1, <2>2, <2>3, <2>4, <1>8, <1>9
<1>15. chosen' = chosen /\ Turns' = Turns /\ claim' = claim
  BY <1>1 DEF playVars, Turns
<1>16. replay' = IF caught # ""
                 THEN [replay EXCEPT !.turn = t, !.cop = cop, !.thief = told,
                                     !.terminal = caught]
                 ELSE IF ~Legal(told, resolved)
                 THEN [replay EXCEPT !.verdict = "TAMPERED", !.accused = "thief"]
                 ELSE [replay EXCEPT !.turn = t, !.cop = cop, !.thief = thief,
                                     !.terminal = TurnTerminal(t, cop, thief)]
  <2> HIDE DEF a, b
  <2>1. replay' = IF caught # ""
                  THEN [replay EXCEPT !.turn = t, !.cop = cop, !.thief = told,
                                      !.terminal = caught]
                  ELSE IF ~Legal(told, resolved)
                  THEN IF IsBlockedMove(told, b)
                       THEN [replay EXCEPT !.verdict = "raised"]
                       ELSE Tampered(replay, "thief")
                  ELSE [replay EXCEPT !.turn = t, !.cop = cop, !.thief = thief,
                                      !.terminal = TurnTerminal(t, cop, thief)]
    BY <1>1, <1>5 DEF ReplayedTurn, ReplayedCop
  <2> HIDE DEF cop, told, caught, resolved, thief, t
  <2> QED
    BY <2>1, <1>13 DEF Tampered
<1> DEFINE ends == TurnTerminal(t, cop, thief)
<1>17. caught \in {"", "barrier_on_thief"}
  BY DEF BarrierCapture
<1>18. /\ ends \in {"", "cop_landed_on_thief", "thief_has_no_legal_move", "survival"}
       /\ ends = "thief_has_no_legal_move" => IsTrapped(thief)
       /\ ends = "survival" => ~IsTrapped(thief)
  <2> HIDE DEF cop, thief, t
  <2> QED
    BY <1>2, TerminalIs
<1>19. Path(chosen')[t] = p[t] /\ Path(chosen')[replay.turn] = here
  BY <1>15
<1> HIDE DEF a, b, t, p, here, cop, told, caught, resolved, thief, ends
<1>20. CASE caught # ""
  <2>1. replay' = [replay EXCEPT !.turn = t, !.cop = cop, !.thief = told,
                                 !.terminal = "barrier_on_thief"]
    BY <1>16, <1>17, <1>20
  <2>2. ReplayTyped'
    BY <2>1, <1>2, <1>7, <1>8, <1>15 DEF ReplayTyped
  <2>3. /\ replay'.turn = t /\ replay'.cop = cop
        /\ replay'.terminal = "barrier_on_thief" /\ replay'.accused = replay.accused
    BY <2>1 DEF ReplayTyped
  <2>4. ReplayAgrees'
    BY <2>3, <1>4, <1>9, <1>19 DEF ReplayAgrees
  <2> QED
    BY <2>2, <2>3, <2>4, <1>4 DEF AnswersStandOtherwise
<1>21. CASE caught = "" /\ ~Legal(told, resolved)
  <2>1. replay' = [replay EXCEPT !.verdict = "TAMPERED", !.accused = "thief"]
    BY <1>16, <1>21
  <2>2. ReplayTyped'
    BY <2>1, <1>15 DEF ReplayTyped
  <2>3. /\ replay'.turn = replay.turn /\ replay'.cop = replay.cop
        /\ replay'.thief = replay.thief /\ replay'.terminal = ""
        /\ replay'.accused = "thief"
    BY <2>1, <1>1 DEF ReplayTyped
  <2>4. ReplayAgrees'
    BY <2>3, <1>4, <1>19 DEF ReplayAgrees
  <2> QED
    BY <2>2, <2>3, <2>4 DEF AnswersStandOtherwise
<1>22. CASE caught = "" /\ Legal(told, resolved)
  <2>1. replay' = [replay EXCEPT !.turn = t, !.cop = cop, !.thief = thief,
                                 !.terminal = ends]
    BY <1>16, <1>22 DEF ends
  <2>2. ReplayTyped'
    BY <2>1, <1>2, <1>7, <1>14, <1>15, <1>18, <1>22 DEF ReplayTyped
  <2>3. /\ replay'.turn = t /\ replay'.cop = cop /\ replay'.thief = thief
        /\ replay'.terminal = ends /\ replay'.accused = replay.accused
    BY <2>1 DEF ReplayTyped
  <2>4. ReplayAgrees'
    BY <2>3, <1>4, <1>9, <1>14, <1>18, <1>19, <1>22 DEF ReplayAgrees
  <2> QED
    BY <2>2, <2>3, <2>4, <1>4 DEF AnswersStandOtherwise
<1> QED
  BY <1>20, <1>21, <1>22

(* An answer the replay disputes is about another turn than the one that    *)
(* ended the replayed game, or about a thief that is not there in it.       *)
LEMMA DisputeIsElsewhere ==
  ASSUME LiveInvariant, PathAgrees, ClaimTyped, ClaimInvariant, ReplayTyped,
         ReplayAgrees, ~Unsettled, ~failed["police"], replay.terminal # "",
         Disputed
  PROVE  /\ claim.phase = "recorded"
         /\ claim.verdict # "audit_required"
         /\ \/ replay.turn < claim.turn
            \/ replay.terminal \in {"barrier_on_thief", "cop_landed_on_thief"}
            \/ replay.thief.position # claim.cell
<1> DEFINE t == claim.turn
           p == Path(chosen)
           a == chosen["police"][t]
           holds == /\ replay.terminal = reason_for_claim_kind[claim.kind]
                    /\ replay.turn = t
<1>1. claim.phase = "recorded" /\ claim.verdict # ""
  BY DEF ClaimInvariant, ClaimTyped, Unsettled, Disputed
<1>2. /\ claim.kind \in CLAIM_KINDS /\ t \in 1 .. Turns
      /\ claim.verdict = "confirm" => Turns = t
      /\ claim.cell \in Cells
      /\ claim.verdict = IF claim.kind = "landed" THEN "audit_required"
                         ELSE IF ClaimHolds THEN "confirm" ELSE "deny"
  BY <1>1 DEF ClaimInvariant, AnswerIsTruthful
<1>3. \/ claim.verdict = "confirm" /\ ~holds
      \/ claim.verdict = "deny" /\ holds
  BY <1>1 DEF Disputed, ClaimTyped
<1>4. claim.verdict # "audit_required"
  BY <1>3
<1>5. claim.kind = "barrier_on_thief" \/ claim.kind = "no_legal_move"
  BY <1>2, <1>4 DEF CLAIM_KINDS
<1>6. SUFFICES ASSUME ~(replay.turn < t),
                      replay.terminal \notin {"barrier_on_thief", "cop_landed_on_thief"}
               PROVE  replay.thief.position # claim.cell
  BY <1>1, <1>4
<1>7. /\ replay.terminal \in {"thief_has_no_legal_move", "survival"}
      /\ replay.turn \in 0 .. Turns
      /\ Turns \in Nat
  BY <1>6, PaceBounds DEF ReplayTyped, LiveInvariant, Turns
<1>8. replay.turn = t
  <2>1. CASE claim.verdict = "confirm"
    <3> DEFINE i == replay.turn
    <3>1. i \in 0 .. Turns /\ ~(i < Turns) /\ Turns = t
      BY <2>1, <1>2, <1>6, <1>7
    <3> HIDE DEF i, t
    <3>2. i = Turns
      BY <3>1, <1>7, LastTurn
    <3> QED
      BY <3>1, <3>2 DEF i
  <2> QED
    BY <2>1, <1>3
<1>9. /\ replay.thief.position = p[t].thief
      /\ replay.thief.barriers = p[t].cop.barriers
      /\ p[t].thief \notin p[t].cop.barriers
      /\ replay.terminal = "thief_has_no_legal_move" => IsTrapped(replay.thief)
      /\ replay.terminal = "survival" => ~IsTrapped(replay.thief)
  BY <1>6, <1>8 DEF ReplayAgrees
<1>10. /\ reason_for_claim_kind["no_legal_move"] = "thief_has_no_legal_move"
      /\ reason_for_claim_kind["barrier_on_thief"] = "barrier_on_thief"
  BY DEF reason_for_claim_kind
<1>11. CASE claim.kind = "no_legal_move"
  <2>1. claim.verdict = "confirm"
          <=> IsTrapped([position |-> claim.cell, barriers |-> replay.thief.barriers])
    BY <1>2, <1>3, <1>9, <1>11 DEF ClaimHolds
  <2>2. holds <=> replay.terminal = "thief_has_no_legal_move"
    BY <1>8, <1>11, <1>10
  <2>3. claim.verdict = "confirm" <=> ~IsTrapped(replay.thief)
    BY <2>2, <1>3, <1>7, <1>9
  <2> QED
    BY <2>1, <2>3, TrappedByItsCell
<1>12. CASE claim.kind = "barrier_on_thief"
  <2>1. ~holds
    BY <1>6, <1>12, <1>10
  <2>2. BarrierCapture(a, claim.cell) # ""
    BY <2>1, <1>2, <1>3, <1>12 DEF ClaimHolds
  <2>3. a.kind = "place_barrier" /\ a.cell = claim.cell
    BY <2>2 DEF BarrierCapture
  <2>4. claim.cell \in p[t].cop.barriers
    <3>1. t \in Nat /\ t # 0
      BY <1>2, <1>7, LastTurn
    <3> DEFINE before == p[t - 1]
    <3>2. p[t] = PlayedOn(before, a, chosen["thief"][t])
      BY <3>1, PathEquations
    <3> HIDE DEF p, a, before, t
    <3>3. PlayedOn(before, a, chosen["thief"][t]).cop.barriers
            = Applied(before.cop, a).barriers
      BY DEF PlayedOn
    <3>4. a.cell \in Applied(before.cop, a).barriers
      BY <2>3 DEF Applied
    <3> QED
      BY <3>2, <3>3, <3>4, <2>3
  <2> QED
    BY <2>4, <1>9
<1> QED
  BY <1>5, <1>11, <1>12

(* The verdict leaves the reconstruction as it ended. *)
LEMMA DecisionKeeps ==
  ASSUME LiveInvariant, PathAgrees, ClaimTyped, ClaimInvariant, ReplayTyped,
         ReplayAgrees, ReplayDecides
  PROVE  ReplayTyped' /\ ReplayAgrees' /\ AnswersStandOtherwise'
<1>1. /\ UNCHANGED playVars /\ replay.verdict = ""
      /\ ~Unsettled /\ ~failed["police"]
  BY DEF ReplayDecides, LogsComplete, Role
<1>2. chosen' = chosen /\ Turns' = Turns /\ claim' = claim
  BY <1>1 DEF playVars, Turns
<1>3. \/ /\ replay.terminal # "" /\ Disputed
         /\ replay' = [replay EXCEPT !.verdict = "TAMPERED", !.accused = "claim"]
      \/ \E v \in {"INCOMPLETE", "VERIFIED_OK"} : replay' = [replay EXCEPT !.verdict = v]
  BY DEF ReplayDecides, Tampered
<1>4. CASE replay.terminal # "" /\ Disputed /\
           replay' = [replay EXCEPT !.verdict = "TAMPERED", !.accused = "claim"]
  <2>1. ReplayTyped'
    BY <1>2, <1>4 DEF ReplayTyped
  <2>2. /\ replay'.turn = replay.turn /\ replay'.cop = replay.cop
        /\ replay'.thief = replay.thief /\ replay'.terminal = replay.terminal
        /\ replay'.accused = "claim" /\ replay'.verdict = "TAMPERED"
    BY <1>4 DEF ReplayTyped
  <2>3. /\ claim.phase = "recorded"
        /\ claim.verdict # "audit_required"
        /\ \/ replay.turn < claim.turn
           \/ replay.terminal \in {"barrier_on_thief", "cop_landed_on_thief"}
           \/ replay.thief.position # claim.cell
    BY <1>1, <1>4, DisputeIsElsewhere
  <2>4. ReplayAgrees'
    BY <2>2, <2>3, <1>2 DEF ReplayAgrees
  <2>5. AnswersStandOtherwise'
    BY <2>2, <2>3, <1>2 DEF AnswersStandOtherwise
  <2> QED
    BY <2>1, <2>4, <2>5
<1>5. ASSUME NEW v \in {"INCOMPLETE", "VERIFIED_OK"},
             replay' = [replay EXCEPT !.verdict = v]
      PROVE  ReplayTyped' /\ ReplayAgrees' /\ AnswersStandOtherwise'
  <2>1. ReplayTyped'
    BY <1>2, <1>5 DEF ReplayTyped
  <2>2. /\ replay'.turn = replay.turn /\ replay'.cop = replay.cop
        /\ replay'.thief = replay.thief /\ replay'.terminal = replay.terminal
        /\ replay'.accused # "claim"
    BY <1>1, <1>5 DEF ReplayTyped, ReplayAgrees
  <2>3. ReplayAgrees'
    BY <2>2, <1>2 DEF ReplayAgrees
  <2> QED
    BY <2>1, <2>2, <2>3, <1>2 DEF AnswersStandOtherwise
<1> QED
  BY <1>3, <1>4, <1>5

-----------------------------------------------------------------------------
LEMMA ReplayInitEstablishes ==
  ASSUME ReplayInit
  PROVE  ReplayInvariant
<1>1. /\ Init
      /\ claim = [phase |-> "none", turn |-> 0, kind |-> "", verdict |-> "",
                  cell |-> <<>>]
      /\ pending = [r \in Role |-> FALSE]
      /\ replay = [turn |-> 0, cop |-> InitialState("police"),
                   thief |-> InitialState("thief"),
                   terminal |-> "", verdict |-> "", accused |-> ""]
  BY DEF ReplayInit, ClaimInit
<1>2. LiveInvariant
  BY <1>1, InitEstablishes
<1>3. /\ "police" \in Role /\ "thief" \in Role
      /\ Opponent("police") = "thief"
      /\ StartOf("police") = CopStart /\ StartOf("thief") = ThiefStart
  BY DEF Role, Opponent, StartOf
<1>4. /\ Turns = 0
      /\ state["police"] = InitialState("police")
      /\ believed["police"] = ThiefStart
  BY <1>1, <1>3, EmptySeq DEF Turns, Init, Turn!Init
<1>5. Path(chosen)[0] = Opening
  BY PathEquations
<1>6. /\ InitialState("police") \in LocalState
      /\ InitialState("thief") \in LocalState
      /\ ThiefStart \in Cells
  BY <1>3, BoardAssumption DEF InitialState, LocalState
<1>7. PathAgrees
  <2>1. Opening \in [cop : LocalState, thief : Cells]
    BY <1>6 DEF Opening
  <2>2. 0 .. Turns = {0} /\ 1 .. Turns = {}
    BY <1>4
  <2> QED
    BY <2>1, <2>2, <1>4, <1>5 DEF PathAgrees, Opening
<1>8. ClaimTyped
  BY <1>1 DEF ClaimTyped
<1>9. ClaimInvariant
  BY <1>1 DEF ClaimInvariant, Unsettled
<1>10. ReplayTyped
  <2>1. 0 \in 0 .. Turns
    BY <1>4
  <2> QED
    BY <2>1, <1>1, <1>6 DEF ReplayTyped
<1>11. ReplayAgrees
  <2>1. /\ Opening.cop.barriers = {} /\ InitialState("thief").barriers = {}
        /\ Opening.thief = ThiefStart /\ Opening.cop = InitialState("police")
        /\ InitialState("thief").position = ThiefStart
    BY <1>3, FieldsOfInitialState DEF Opening
  <2>2. /\ replay.turn = 0 /\ replay.cop = InitialState("police")
        /\ replay.thief = InitialState("thief")
        /\ replay.terminal = "" /\ replay.accused = ""
    BY <1>1
  <2> QED
    BY <2>1, <2>2, <1>5 DEF ReplayAgrees
<1>12. AnswersStandOtherwise
  BY <1>1 DEF AnswersStandOtherwise
<1> QED
  BY <1>2, <1>7, <1>8, <1>9, <1>10, <1>11, <1>12 DEF ReplayInvariant

(* A step of the match. *)
LEMMA MatchStepKeeps ==
  ASSUME ReplayInvariant, ClaimNext, UNCHANGED replay
  PROVE  ReplayInvariant'
<1> USE DEF ReplayInvariant
<1>1. LiveInvariant'
  BY ClaimNextIsLive
<1>2. Turns \in Nat
  BY PaceBounds DEF LiveInvariant, Turns
<1>3. ASSUME NEW r \in Role, Play(r)
      PROVE  ReplayInvariant'
  <2>1. /\ ClaimInvariant' /\ SameUpTo(chosen, chosen', Turns)
        /\ Turns' \in Nat /\ Turns <= Turns'
    BY <1>3, PlayKeepsClaim
  <2>2. UNCHANGED <<claim, pending>>
    BY <1>3 DEF Play, claimVars
  <2>3. ClaimTyped'
    BY <2>2 DEF ClaimTyped
  <2>4. PathAgrees'
    <3>1. CASE ApplyTurn(r) /\ r = "police"
      BY <3>1, PathGrows
    <3>2. CASE ApplyTurn(r) /\ r # "police"
      <4>1. "police" \in Role
        BY DEF Role
      <4>2. /\ seen'["police"] = seen["police"]
            /\ state'["police"] = state["police"]
            /\ believed'["police"] = believed["police"]
        BY <3>2, <4>1, ApplyTyped
      <4> QED
        BY <4>2, <2>1, PathStands
    <3>3. CASE ChooseAction(r)
      BY <3>3, <2>1, ChoiceIsLater, PathStands
    <3>4. CASE OwnActionIllegal(r)
      BY <3>4, <2>1, PathStands DEF OwnActionIllegal
    <3> QED
      BY <1>3, <3>1, <3>2, <3>3, <3>4 DEF Play
  <2>5. ReplayTyped' /\ ReplayAgrees' /\ AnswersStandOtherwise'
    BY <2>1, <2>2, ReplayStands
  <2> QED
    BY <1>1, <2>1, <2>3, <2>4, <2>5
<1>4. ASSUME UNCHANGED <<chosen, seen, state, believed>>,
             ClaimTyped', ClaimInvariant', claim.phase = "recorded" => claim' = claim
      PROVE  ReplayInvariant'
  <2>1. Turns' = Turns
    BY <1>4 DEF Turns
  <2>2. SameUpTo(chosen, chosen', Turns)
    BY <1>4, SameIsSame
  <2>3. PathAgrees'
    BY <1>4, <2>2, PathStands
  <2>4. ReplayTyped' /\ ReplayAgrees' /\ AnswersStandOtherwise'
    BY <1>2, <1>4, <2>1, <2>2, ReplayStands
  <2> QED
    BY <1>1, <1>4, <2>3, <2>4
<1>5. ASSUME NEW r \in Role, OpponentStopped(r)
      PROVE  ReplayInvariant'
  <2>1. /\ UNCHANGED <<chosen, seen, state, believed, claim, pending>>
        /\ failed["police"] => failed'["police"]
    BY <1>5 DEF OpponentStopped, LiveInvariant, TypeOK
  <2>2. Turns' = Turns /\ SameUpTo(chosen, chosen', Turns)
    BY <2>1, SameIsSame DEF Turns
  <2>3. ClaimInvariant'
    BY <1>2, <2>1, <2>2, ClaimStands
  <2>4. ClaimTyped'
    BY <2>1 DEF ClaimTyped
  <2> QED
    BY <2>1, <2>3, <2>4, <1>4
<1>6. ASSUME NEW kind \in ClaimKinds, ClaimCapture(kind)
      PROVE  ReplayInvariant'
  <2>1. UNCHANGED <<chosen, seen, state, believed>> /\ claim.phase = "none"
    BY <1>6 DEF ClaimCapture, liveVars
  <2> QED
    BY <2>1, <1>4, <1>6, ClaimingKeeps
<1>7. CASE AnswerClaim
  <2>1. UNCHANGED <<chosen, seen, state, believed>> /\ claim.phase = "sent"
    BY <1>7 DEF AnswerClaim, liveVars
  <2> QED
    BY <2>1, <1>4, <1>7, AnsweringKeeps
<1>8. CASE RecordResponse \/ ClaimFails
  <2>1. UNCHANGED <<chosen, seen, state, believed>> /\ claim.phase # "recorded"
    BY <1>8 DEF RecordResponse, ClaimFails, Unsettled, liveVars
  <2> QED
    BY <2>1, <1>4, <1>8, SettlingKeeps
<1> QED
  BY <1>3, <1>5, <1>6, <1>7, <1>8 DEF ClaimNext

LEMMA ReplayNextKeeps ==
  ASSUME ReplayInvariant, [ReplayNext]_vars
  PROVE  ReplayInvariant'
<1>1. CASE ClaimNext /\ UNCHANGED replay
  BY <1>1, MatchStepKeeps
<1>2. ASSUME UNCHANGED playVars,
             ReplayTyped' /\ ReplayAgrees' /\ AnswersStandOtherwise'
      PROVE  ReplayInvariant'
  <2>1. UNCHANGED <<chosen, seen, state, believed, failed, claim, pending>>
    BY <1>2 DEF playVars
  <2>2. LiveInvariant'
    BY <2>1, NextKeeps DEF ReplayInvariant, liveVars
  <2>3. PathAgrees'
    BY <2>1, SameIsSame, PathStands DEF ReplayInvariant
  <2>4. ClaimTyped' /\ ClaimInvariant'
    BY <2>1 DEF ReplayInvariant, ClaimTyped, ClaimInvariant, Unsettled, Turns,
                AnswerIsTruthful, ClaimHolds
  <2> QED
    BY <1>2, <2>2, <2>3, <2>4 DEF ReplayInvariant
<1>3. CASE ReplayTurn
  BY <1>2, <1>3, TurnKeeps DEF ReplayInvariant, ReplayTurn
<1>4. CASE ReplayDecides
  BY <1>2, <1>4, DecisionKeeps DEF ReplayInvariant, ReplayDecides
<1>5. CASE UNCHANGED vars
  <2>1. UNCHANGED playVars /\ UNCHANGED replay
    BY <1>5 DEF vars, playVars
  <2>2. UNCHANGED <<chosen, claim>> /\ Turns' = Turns
    BY <2>1 DEF playVars, Turns
  <2>3. ReplayTyped' /\ ReplayAgrees' /\ AnswersStandOtherwise'
    BY <2>1, <2>2
    DEF ReplayInvariant, ReplayTyped, ReplayAgrees, AnswersStandOtherwise
  <2> QED
    BY <1>2, <2>1, <2>3
<1> QED
  BY <1>1, <1>3, <1>4, <1>5 DEF ReplayNext

-----------------------------------------------------------------------------
(* Live peers, capture claims and the replay of the two logs, together: the *)
(* replayed game is the one the cop lived, up to where it stopped, and an   *)
(* answered claim is the truth of the board it was answered on.             *)
THEOREM ReplaySafe == ReplaySpec => []ReplayInvariant
<1>1. ReplayInit => ReplayInvariant
  BY ReplayInitEstablishes
<1>2. ReplayInvariant /\ [ReplayNext]_vars => ReplayInvariant'
  BY ReplayNextKeeps
<1> QED
  BY <1>1, <1>2, PTL DEF ReplaySpec

(* Claims, and the peers they stop, leave what the live boards promise.     *)
THEOREM ClaimsKeepTheBoards == ReplaySpec => [](BoardsConverge /\ ThiefTracksCop)
<1>1. ReplayInvariant => BoardsConverge /\ ThiefTracksCop
  BY InvariantSharesBoard DEF ReplayInvariant, LiveInvariant
<1> QED
  BY <1>1, ReplaySafe, PTL

(* _reconstruct never accuses the cop, gives its state and quota back to    *)
(* the last barrier, never raises, and never ends on the move ceiling.      *)
THEOREM ReplayReproducesTheCop == ReplaySpec => []ReplayIsFaithful
<1>1. ReplayInvariant => ReplayIsFaithful
  <2> SUFFICES ASSUME ReplayInvariant
               PROVE  ReplayIsFaithful
    OBVIOUS
  <2>1. /\ replay.accused # "police" /\ replay.verdict # "raised"
        /\ replay.terminal # "max_moves_reached"
    BY DEF ReplayInvariant, ReplayTyped
  <2>2. replay.turn = Turns => replay.cop = state["police"]
    BY DEF ReplayInvariant, PathAgrees, ReplayAgrees
  <2>3. replay.terminal # "barrier_on_thief" =>
          /\ replay.thief.position \notin replay.thief.barriers
          /\ replay.thief.barriers = replay.cop.barriers
    BY DEF ReplayInvariant, ReplayAgrees
  <2> QED
    BY <2>1, <2>2, <2>3 DEF ReplayIsFaithful
<1> QED
  BY <1>1, ReplaySafe, PTL

(* OpponentTracker resolves the thief's blocked moves as _reconstruct does: *)
(* at the end the cop believes the thief where the replay has it.           *)
THEOREM ReckoningIsTheReplays == ReplaySpec => []CopTracksReplayedThief
<1>1. ReplayInvariant => CopTracksReplayedThief
  BY DEF ReplayInvariant, PathAgrees, ReplayAgrees, CopTracksReplayedThief
<1> QED
  BY <1>1, ReplaySafe, PTL

(* From a confirming answer on neither turn loop applies another turn. *)
THEOREM ConfirmedClaimStopsPlay == ReplaySpec => []ConfirmedClaimFreezes
<1>1. ReplayInvariant => ConfirmedClaimFreezes
  BY DEF ReplayInvariant, ClaimInvariant, ConfirmedClaimFreezes, Role, Turns
<1> QED
  BY <1>1, ReplaySafe, PTL

(* check_capture_claims holds an answer of the thief against it only where  *)
(* the replayed game parted from the live one the answer was given in.      *)
THEOREM AnswersAreHonest == ReplaySpec => []AnswersStandOtherwise
<1>1. ReplayInvariant => AnswersStandOtherwise
  BY DEF ReplayInvariant
<1> QED
  BY <1>1, ReplaySafe, PTL
=============================================================================
