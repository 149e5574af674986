----------------------------- MODULE MCProgress -----------------------------
(* Two components whose promise is that something happens: the work queue   *)
(* with two items, and a conversation of one turn.  They share nothing, so  *)
(* the initial state picks the one that moves.                              *)
EXTENDS WorkQueue, Conversation

CONSTANTS i1, i2, k1, k2, r1, r2

\* Two items with keys of their own, and two workers.
MCKeyOf == [i \in {i1, i2} |-> IF i = i1 THEN k1 ELSE k2]
MCWorkerOf == [r \in {r1, r2} |-> r]

VARIABLE part
progressVars == <<vars, convVars, part>>

ProgressInit == Init /\ ConvInit /\ part \in {"queue", "conversation"}
ProgressNext == /\ \/ part = "queue" /\ Reliable /\ UNCHANGED convVars
                   \/ part = "conversation" /\ ConvNext /\ UNCHANGED vars
                /\ UNCHANGED part
Progress == /\ ProgressInit /\ [][ProgressNext]_progressVars
            /\ part = "queue" => Fairness
            /\ part = "conversation" => ConvFairness
=============================================================================
