---------------------------- MODULE MCToolLedger ----------------------------
(* Three executions of one call and three operator requests: a crash, a      *)
(* replay and a second replay can meet a decision and its repetition.        *)
EXTENDS ToolLedger, TLC

CONSTANTS e1, e2, e3, o1, o2, o3

MCExecs == {e1, e2, e3}
MCOps == {o1, o2, o3}

\* Executions and requests are interchangeable.
Symmetric == Permutations(MCExecs) \cup Permutations(MCOps)

(* Several processes on one ledger, with retries: two executions, three requests. *)

MCTwoExecs == {e1, e2}
SymmetricTwo == Permutations(MCTwoExecs) \cup Permutations(MCOps)
=============================================================================
