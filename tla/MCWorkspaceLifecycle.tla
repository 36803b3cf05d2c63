----------------------- MODULE MCWorkspaceLifecycle -----------------------
(* Places 1 and 2 on the first server, 3 on the second *)
EXTENDS WorkspaceLifecycle
=============================================================================
