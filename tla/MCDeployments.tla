--------------------------- MODULE MCDeployments ---------------------------
(* A project with a Compose file of its own, one a template fits, and one that none fits *)
EXTENDS Deployments, TLC

CONSTANTS c1, c2
Alike == Permutations(Configs)

Tree(compose, vite) == [compose |-> compose, pnpm |-> TRUE, vite |-> vite, server |-> FALSE, build |-> TRUE]
SomeTrees == {Tree(TRUE, FALSE), Tree(FALSE, TRUE), Tree(FALSE, FALSE)}
=============================================================================
