---------------------------- MODULE TurnContract ----------------------------
(***************************************************************************)
(* What a conversation promises its user, without locks, tasks, sweeps,    *)
(* runs or restarts: turns are accepted one after the other, only the      *)
(* newest turn ever works or waits for a person, none is accepted beside   *)
(* one that waits, and a turn that is over stays over.  Conversation       *)
(* implements it under the mapping stage <- StageOf.                       *)
(***************************************************************************)
EXTENDS Naturals, TLAPS

CONSTANT LastTurn
VARIABLE stage   \* [turn -> none, accepted, working, waiting or over]

\* Turn t is the newest one accepted.
Newest(t) == t = LastTurn \/ stage[t + 1] = "none"
Moves(t, from, to) == stage[t] = from /\ stage' = [stage EXCEPT ![t] = to]

AcceptTurn(t) == /\ t = 1 \/ stage[t - 1] \notin {"none", "waiting"}
                 /\ Moves(t, "none", "accepted")
\* The newest turn is worked on, asks a person, and goes on.
Work(t) == Newest(t) /\ Moves(t, "accepted", "working")
Wait(t) == Newest(t) /\ Moves(t, "working", "waiting")
GoOn(t) == Newest(t) /\ Moves(t, "waiting", "working")
\* Any turn may end: answered, failed, cancelled or expired.
End(t) == \E from \in {"accepted", "working", "waiting"} : Moves(t, from, "over")

ContractInit == stage = [t \in 1..LastTurn |-> "none"]
ContractNext == \E t \in 1..LastTurn : AcceptTurn(t) \/ Work(t) \/ Wait(t) \/ GoOn(t) \/ End(t)
Contract == ContractInit /\ [][ContractNext]_stage
-----------------------------------------------------------------------------
(* What the contract gives the user, for any number of turns. *)
Turns == 1..LastTurn

\* Turns are accepted in order, and nothing is accepted after one that waits.
InTurn ==
    /\ stage \in [Turns -> {"none", "accepted", "working", "waiting", "over"}]
    /\ \A t, u \in Turns : t < u /\ stage[t] \in {"none", "waiting"} => stage[u] = "none"

\* A person is asked by one turn at a time, the last one that was accepted.
OneAsks ==
    \A t \in Turns : stage[t] = "waiting" => \A u \in Turns : u > t => stage[u] = "none"

\* No turn has been accepted after the newest one (submit).
LEMMA NothingAfter ==
    ASSUME LastTurn \in Nat, InTurn, NEW t \in Turns, Newest(t)
    PROVE  \A u \in Turns : u > t => stage[u] = "none"
<1> SUFFICES ASSUME NEW u \in Turns, u > t PROVE stage[u] = "none"
  OBVIOUS
<1>1. t + 1 \in Turns /\ stage[t + 1] = "none"
  BY DEF Turns, Newest
<1>2. CASE u = t + 1
  BY <1>1, <1>2
<1>3. CASE u # t + 1
  <2>1. t + 1 < u
    BY <1>3 DEF Turns
  <2> QED
    BY <1>1, <2>1 DEF InTurn
<1> QED
  BY <1>2, <1>3

\* Only the last turn that was accepted ever waits for a person, so that an answer has one
\* addressee, whatever is submitted, cancelled and recovered (submit, respond, recover).
THEOREM OneAsksAtATime ==
    ASSUME LastTurn \in Nat
    PROVE  Contract => []OneAsks
<1>1. ContractInit => InTurn
  BY DEF ContractInit, InTurn, Turns
<1>2. InTurn /\ [ContractNext]_stage => InTurn'
  <2> SUFFICES ASSUME InTurn, [ContractNext]_stage PROVE InTurn'
    OBVIOUS
  <2>1. ASSUME NEW t \in Turns, AcceptTurn(t) PROVE InTurn'
    <3>1. \A s \in Turns : s < t => stage[s] \notin {"none", "waiting"}
      <4> SUFFICES ASSUME NEW s \in Turns, s < t PROVE stage[s] \notin {"none", "waiting"}
        OBVIOUS
      <4>1. t - 1 \in Turns /\ stage[t - 1] \notin {"none", "waiting"}
        BY <2>1 DEF AcceptTurn, Turns
      <4>2. s = t - 1 \/ s < t - 1
        BY DEF Turns
      <4> QED
        BY <4>1, <4>2 DEF InTurn
    <3>2. stage' = [stage EXCEPT ![t] = "accepted"]
      BY <2>1 DEF AcceptTurn, Moves
    <3> QED
      BY <3>1, <3>2 DEF InTurn, Turns
  <2>2. ASSUME NEW t \in Turns, Wait(t) PROVE InTurn'
    <3>1. \A u \in Turns : u > t => stage[u] = "none"
      BY <2>2, NothingAfter DEF Wait
    <3>2. stage[t] = "working" /\ stage' = [stage EXCEPT ![t] = "waiting"]
      BY <2>2 DEF Wait, Moves
    <3> QED
      BY <3>1, <3>2 DEF InTurn, Turns
  <2>3. ASSUME NEW t \in Turns, Work(t) \/ GoOn(t) \/ End(t) PROVE InTurn'
    <3>1. stage[t] # "none"
      BY <2>3 DEF Work, GoOn, End, Moves
    <3>2. stage' = [stage EXCEPT ![t] = "working"] \/ stage' = [stage EXCEPT ![t] = "over"]
      BY <2>3 DEF Work, GoOn, End, Moves
    <3> QED
      BY <3>1, <3>2 DEF InTurn, Turns
  <2>4. CASE UNCHANGED stage
    BY <2>4 DEF InTurn
  <2> QED
    BY <2>1, <2>2, <2>3, <2>4 DEF ContractNext, Turns
<1>3. InTurn => OneAsks
  BY DEF InTurn, OneAsks, Turns
<1> QED
  BY <1>1, <1>2, <1>3, PTL DEF Contract
=============================================================================
