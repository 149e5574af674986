--------------------------- MODULE MCRunLifecycle ---------------------------
(* RunLifecycle on one process and two concurrent handlers.         *)
EXTENDS RunLifecycle, TLC

CONSTANTS n1, h1, h2

OneNode == {n1}
TwoHandlers == {h1, h2}

Symmetric == Permutations(Handlers)
=============================================================================
