----------------------------- MODULE MCWorkflow -----------------------------
(* Small workflows for TLC.                                                *)
EXTENDS Workflow, TLC

Shape(kind, deps) ==
    [kind |-> kind, deps |-> deps,
     failure |-> [n \in Nodes |-> "skip_dependents"],
     rejection |-> [n \in Nodes |-> "skip_dependents"],
     recovery |-> [n \in Nodes |-> "fail"],
     asks |-> {}, conditional |-> {}, maximum_occurrences |-> 1, maximum_concurrency |-> 2]

\* A proposal that may ask back, its approval, and the change it allows.
Proposal == [Shape(<<"work", "approval", "gated">>, <<{}, {1}, {2}>>) EXCEPT
                !.asks = {1}, !.recovery = <<"retry", "fail", "fail">>]
\* Two approvals gate one step; the first lets a rejection through.
TwoGates == [Shape(<<"approval", "approval", "gated">>, <<{}, {}, {1, 2}>>) EXCEPT
                !.rejection = <<"continue", "skip_dependents", "skip_dependents">>]
\* An approval beside two pieces of work, of which one may ask.
Beside == [Shape(<<"approval", "work", "work">>, <<{}, {}, {}>>) EXCEPT
                !.asks = {2}, !.recovery = <<"fail", "retry", "retry">>]
\* A question beside an approval that later work waits for.
Behind == [Shape(<<"approval", "work", "work">>, <<{}, {}, {1}>>) EXCEPT
                !.asks = {2}, !.recovery = <<"fail", "retry", "retry">>, !.maximum_concurrency = 1]
\* A branch that may be skipped or fail, joined with one that must not.
Branches == [Shape(<<"work", "work", "join">>, <<{}, {}, {1, 2}>>) EXCEPT
                !.conditional = {1}, !.failure = <<"continue", "fail_workflow", "skip_dependents">>]

AllShapes == {Proposal, TwoGates, Behind, Branches}
Alike == Permutations(Tasks) \cup Permutations(Procs)
Parallel == {Beside}
=============================================================================
