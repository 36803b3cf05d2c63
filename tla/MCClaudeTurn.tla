---------------------------- MODULE MCClaudeTurn ----------------------------
(* Two instructions and one question of one Claude turn *)
EXTENDS ClaudeTurn

CONSTANTS i1, i2, q1
=============================================================================
