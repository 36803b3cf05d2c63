----------------------- MODULE MCServerConfiguration -----------------------
(* The requests of the instance: settings only matter for Codex *)
EXTENDS ServerConfiguration

EveryRequest ==
  {<<"check", "codex">>, <<"select", "codex">>, <<"update", "agent">>, <<"codexupdate", "codex">>}
    \cup ({"install", "turn"} \X Clis)
    \cup ({"credentials"} \X Scopes)
    \cup ({"api"} \X {"gemini", "claude"})
    \cup ({"save", "delete"} \X {"git"})
=============================================================================
