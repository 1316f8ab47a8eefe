------------------------------ MODULE MCReplay ------------------------------
(* Small boards of Replay for TLC. *)
EXTENDS ReplayInvariant

TopLeft == <<0, 0>>
Centre == <<1, 1>>
=============================================================================
