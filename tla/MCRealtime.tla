----------------------------- MODULE MCRealtime -----------------------------
(* Realtime with model values for browsers, publishers and scopes.          *)
EXTENDS Realtime

CONSTANTS b1, p1, p2, s1, s2
=============================================================================
