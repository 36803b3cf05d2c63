--------------------------- MODULE MCCodexThread ----------------------------
(***************************************************************************)
(* Instances of CodexThread for TLC.                                       *)
(***************************************************************************)
EXTENDS CodexThread

CONSTANTS t1, t2, t3, u1
=============================================================================
