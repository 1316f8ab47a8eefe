------------------------------ MODULE Tracker ------------------------------
(***************************************************************************)
(* Where each peer believes the other to be (strategy.tracker over         *)
(* domain.belief and the verbal hints), next to where it is.  A step is    *)
(* one completed turn: both actions are applied as play_turn does, and the *)
(* thief is moved the way the replay resolves the same two actions.        *)
(*                                                                         *)
(* A distribution is the set of cells with positive probability.  Scent is *)
(* a likelihood of at least 1, so it moves the peak and never the support. *)
(***************************************************************************)
EXTENDS Board

CONSTANT TrackedTurns \* turns of the match (bound)

(* Validation refuses a quota of barriers that leaves no room for the two.  *)
ASSUME TrackAssumption ==
  /\ TrackedTurns \in Nat
  /\ MaxBarriers + 2 <= GridSize * GridSize

VARIABLES
  trackedTurn, \* turns completed
  live,        \* LocalState of each peer
  replayed,    \* the thief's cell as the replay has it
  belief,      \* BeliefMap: the cells each peer holds possible
  over,        \* have this peer and the opponent it tracks met
  underCop     \* did the cop ever put a barrier on its own cell

trackVars == <<trackedTurn, live, replayed, belief, over, underCop>>

TrackTypeOK ==
  /\ trackedTurn \in 0..TrackedTurns
  /\ live \in [Role -> LocalState]
  /\ replayed \in Cells
  /\ belief \in [Role -> SUBSET Cells]
  /\ over \in [Role -> BOOLEAN]
  /\ underCop \in BOOLEAN

(* The opponent's start is an agreed condition of the shared configuration. *)
TrackInit ==
  /\ trackedTurn = 0
  /\ live = [r \in Role |-> InitialState(r)]
  /\ replayed = ThiefStart
  /\ belief = [r \in Role |-> {StartOf(Opponent(r))}]
  /\ over = [r \in Role |-> FALSE]
  /\ underCop = FALSE

-----------------------------------------------------------------------------
(* belief.py, on the board with these barriers. *)

Open(barriers) == Cells \ barriers

(* Contradictory evidence means total ignorance, but not about the cells    *)
(* that have just been ruled out.                                           *)
normalise(cells, barriers, forbidden) ==
  IF cells = {} THEN Open(barriers) \ forbidden ELSE cells

exclude_impossible(cells, barriers, disproven) ==
  LET gone == (cells \cap barriers) \cup disproven
  IN  normalise(cells \ gone, barriers, gone)

(* A step that cannot be taken means they did not move. *)
StepOrStay(cell, d, barriers) ==
  IF Shifted(cell, d) \in Open(barriers) THEN Shifted(cell, d) ELSE cell
predict(cells, d, barriers) ==
  exclude_impossible({StepOrStay(c, d, barriers) : c \in cells}, barriers, {})

(* An unknown step: stay, or go to any open neighbour. *)
predict_unknown(cells, barriers) ==
  exclude_impossible({StepOrStay(c, d, barriers) : c \in cells, d \in Direction},
                     barriers, {})

-----------------------------------------------------------------------------
(* tracker.py *)

observe_opponent_action(cells, a, barriers, ownCell) ==
  LET moved == IF a.kind = "move" THEN predict(cells, a.direction, barriers)
               ELSE predict_unknown(exclude_impossible(cells, barriers, {}), barriers)
  IN  exclude_impossible(moved, barriers, {ownCell})

(* What a hint is worth: nothing ("none": a barrier, a fallback, a sentence *)
(* cut short or naming two directions, a claim the peak of the scent        *)
(* contradicts) or a direction, perhaps a lie.                              *)
Opposite == [N |-> "S", S |-> "N", E |-> "W", W |-> "E"]
Claims(a) ==
  {"none"} \cup
    (IF a.kind # "move" THEN {}
     ELSE IF a.direction = "STAY" THEN {"STAY"}
     ELSE {a.direction, Opposite[a.direction]})

(* A supported claim moves part of the mass of every cell, never all of it: *)
(* clarity 0.9 times the trust, which is at least 0.1 then.                 *)
note_hint_Believed(cells, claim, barriers, ownCell) ==
  exclude_impossible({Shifted(c, claim) : c \in cells} \cap Open(barriers),
                     barriers, {ownCell})
note_hint(cells, claim, barriers, ownCell) ==
  exclude_impossible(cells \cup ({Shifted(c, claim) : c \in cells} \cap Open(barriers)),
                     barriers, {ownCell})

(* One turn's evidence, in the order of APPLYING_TURN.  `before' is the     *)
(* board with the peer's own barrier, `after' with the opponent's as well.  *)
Updated(r, own, theirs, hint, ownCell) ==
  LET before == Applied(live[r], own).barriers
      after == Observed(Applied(live[r], own), theirs).barriers
      declared == IF own.kind = "move" THEN belief[r]
                  ELSE exclude_impossible(belief[r], before, {})
      observed == observe_opponent_action(declared, theirs, after, ownCell)
  IN  IF hint \notin Direction THEN observed
      ELSE note_hint(observed, hint, after, ownCell)

(* The replay: the barrier first, then the thief, which stands still when   *)
(* its move is blocked.                                                     *)
ReplayedThief(a, b) ==
  LET told == Observed([live["thief"] EXCEPT !.position = replayed], a)
  IN  IF Legal(told, b) THEN Followed(replayed, b) ELSE replayed
ReplayOver(a, b) ==
  LET told == Observed([live["thief"] EXCEPT !.position = replayed], a)
  IN  \/ BarrierCapture(a, replayed) # ""
      \/ ReplayedThief(a, b) = Followed(live["police"].position, a)
      \/ ~Legal(told, b) /\ ~IsBlockedMove(told, b)

TrackedTurn(a, b, hints) ==
  LET action == [police |-> a, thief |-> b]
      next == [r \in Role |-> Observed(Applied(live[r], action[r]), action[Opponent(r)])]
  IN  /\ trackedTurn' = trackedTurn + 1
      /\ live' = next
      /\ replayed' = ReplayedThief(a, b)
      /\ belief' = [r \in Role |-> Updated(r, action[r], action[Opponent(r)],
                                           hints[r], next[r].position)]
      /\ over' = [police |-> over["police"] \/ ReplayOver(a, b),
                  thief |-> \/ over["thief"]
                            \/ next["police"].position = next["thief"].position]
      /\ underCop' = (underCop \/ a = PlaceBarrier(live["police"].position))

TrackNext ==
  /\ trackedTurn < TrackedTurns
  /\ \E a \in LegalActions(live["police"]), b \in LegalActions(live["thief"]) :
       \E toPolice \in Claims(b), toThief \in Claims(a) :
         TrackedTurn(a, b, [police |-> toPolice, thief |-> toThief])

-----------------------------------------------------------------------------
Tracked(r) == IF r = "police" THEN replayed ELSE live["police"].position

KeepsTheOpponent(r) == ~over[r] /\ (r = "thief" => ~underCop) => Tracked(r) \in belief[r]
RulesOutTheImpossible(r) ==
  belief[r] \cap live[r].barriers = {} /\ live[r].position \notin belief[r]

(* However the opponent lies and wherever barriers fall, a peer never rules *)
(* out the cell its opponent is on, until the two meet: the thief the live  *)
(* cop's, the cop that of the thief of the replay.  The one exception is a  *)
(* cop under its own barrier, which exclude_impossible rules out.  And a    *)
(* strategy always has a belief to decide from, met or not, that holds      *)
(* neither barriers nor the peer's own cell.                                *)
BeliefNeverRulesOut ==
  \A r \in Role : KeepsTheOpponent(r) /\ RulesOutTheImpossible(r) /\ belief[r] # {}
=============================================================================
