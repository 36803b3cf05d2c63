------------------------ MODULE MCTurnOwnership ------------------------
(* A Gemini and a Claude conversation of one workspace *)
EXTENDS TurnOwnership
CONSTANTS g1, c1, s1, s2
=============================================================================
