----------------------------- MODULE MCLearning -----------------------------
(* One match between two peers that share profiles, for TLC. *)
EXTENDS Learning

VARIABLE derived \* the parameter each peer's last match was prepared with

PreparedInit == LearnInit /\ derived = [p \in Learner |-> Parameter(p)]
PreparedNext ==
  /\ LearnNext
  /\ derived' = [p \in Learner |-> IF at[p] = "idle" /\ at'[p] = "playing"
                                   THEN Parameter(p) ELSE derived[p]]
PreparedSpec == PreparedInit /\ [][PreparedNext]_<<learnVars, derived>>

=============================================================================
