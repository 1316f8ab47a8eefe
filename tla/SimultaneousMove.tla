-------------------------- MODULE SimultaneousMove --------------------------
(* What the commit-reveal turn promises: two players choose their moves of  *)
(* a turn independently, and neither learns the other's move of a turn, nor *)
(* goes on to the next one, before both have chosen.  A player may stop.    *)
EXTENDS Naturals, Sequences

CONSTANTS Player,  \* the two peers
          Action,  \* what they choose from
          MaxTurn  \* turns of the game

VARIABLES chosen,  \* chosen[p]: the moves p has bound itself to, by turn
          seen     \* seen[p]: the moves of its rival that p has acted on

vars == <<chosen, seen>>

Init ==
  /\ chosen = [p \in Player |-> <<>>]
  /\ seen = [p \in Player |-> <<>>]

Choose(p, a) ==
  /\ Len(chosen[p]) = Len(seen[p])
  /\ Len(chosen[p]) < MaxTurn
  /\ chosen' = [chosen EXCEPT ![p] = Append(@, a)]
  /\ UNCHANGED seen

See(p, rival) ==
  /\ Len(seen[p]) < Len(chosen[p])
  /\ Len(seen[p]) < Len(chosen[rival])
  /\ seen' = [seen EXCEPT ![p] = Append(@, chosen[rival][Len(@) + 1])]
  /\ UNCHANGED chosen

Next ==
  \E p \in Player :
    \/ \E a \in Action : Choose(p, a)
    \/ \E rival \in Player \ {p} : See(p, rival)

Spec == Init /\ [][Next]_vars
=============================================================================
