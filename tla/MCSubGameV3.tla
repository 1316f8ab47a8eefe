---------------------------- MODULE MCSubGameV3 ----------------------------
(* Small boards of SubGameV3 for TLC. *)
EXTENDS SubGameV3Invariant

TopLeft == <<0, 0>>
Centre == <<1, 1>>
=============================================================================
