----------------------------- MODULE ModelRouter -----------------------------
(***************************************************************************)
(* The model router (models/base.py): which provider a call is sent to,    *)
(* what happens when it fails, and the meter that reserves before and      *)
(* settles after every dispatch (models/metering.py).                      *)
(*                                                                         *)
(* A call ranks its candidates once and works through them with awaits in  *)
(* between; calls share the health of the providers and their rate limits. *)
(* Time is a clock that other steps may let pass.                          *)
(***************************************************************************)
EXTENDS Integers, OrderedTable

CONSTANTS Providers,        \* registrations, [local, cost, caps, override]
          Registration,     \* [Providers -> registration]
          Profiles,         \* the profiles of a request, in their declared order
          ModelCalls,       \* calls under way at once
          Threshold, Reset, \* of the circuit
          Limit, Window,    \* requests per window
          MaxClock,         \* moments in a behaviour
          MeterMayFail      \* whether the meter can fail to settle

ASSUME RouterAssumption ==
    /\ Threshold \in Nat \ {0} /\ Limit \in Nat \ {0} /\ Window \in Nat \ {0} /\ Reset \in Nat /\ MaxClock \in Nat
    /\ DOMAIN Profiles = 1..Len(Profiles) /\ Len(Profiles) \in Nat
    /\ \A i \in DOMAIN Profiles : Profiles[i].provider \in Providers /\ Profiles[i].quality \in Int
    /\ \A p \in Providers : Registration[p].cost \in Int

VARIABLES health,      \* [fails, opened, slow] of a provider; opened is a moment or -1
          stamps,      \* the moments in a provider's window
          clock,
          rcall,       \* a call under way
          ticket,      \* its reservation
          admitted     \* not in the code: every moment a provider let a request through
routerVars == <<health, stamps, clock, rcall, ticket, admitted>>

Unopened == -1
IdleCall == [at |-> "idle", todo |-> <<>>, tried |-> <<>>, big |-> FALSE, result |-> "none", streaming |-> FALSE]
RouterInit ==
    /\ health = [p \in Providers |-> [fails |-> 0, opened |-> Unopened, slow |-> 0]]
    /\ stamps = [p \in Providers |-> <<>>] /\ admitted = [p \in Providers |-> <<>>]
    /\ clock = 0
    /\ rcall = [c \in ModelCalls |-> IdleCall]
    /\ ticket = [c \in ModelCalls |-> "none"]

-----------------------------------------------------------------------------

(* Candidates. *)

\* _narrow_capabilities: a configured capability the adapter lacks stays away.
NarrowCapabilities(r) == {f \in r.caps : f \in DOMAIN r.override => r.override[f]}
Tripped(p) == health[p].opened # Unopened /\ clock - health[p].opened < Reset
Admissible(i) ==
    LET f == Profiles[i]
        r == Registration[f.provider]
    IN  /\ ~Tripped(f.provider)
        /\ health[f.provider].slow <= f.maxSlow
        /\ f.needs \subseteq NarrowCapabilities(r)
        /\ r.cost <= f.maxCost
Score(i) ==
    LET f == Profiles[i]
        r == Registration[f.provider]
        preferred == (f.prefer = "local_first" /\ r.local) \/ (f.prefer = "cloud_first" /\ ~r.local)
    IN  IF Profiles[1].prefer = "ordered" THEN -i
        ELSE f.quality * 1000 + (IF preferred THEN 10000 ELSE 0) - health[f.provider].slow - r.cost
\* A stable sort: of two equals the one declared first.
Before(i, j) == Score(i) > Score(j) \/ (Score(i) = Score(j) /\ i < j)
Able == {i \in DOMAIN Profiles : Admissible(i)}
Candidates == InOrder(Able, {e \in Able \X Able : Before(e[1], e[2])})
\* prepare_model_request: whether the request fits the candidate's context window.
FitsWindow(c, i) == ~rcall[c].big \/ Profiles[i].wide

EndCall(c, result) == rcall' = [rcall EXCEPT ![c].at = "done", ![c].result = result, ![c].todo = <<>>]
StartCall(c, big, streaming) ==
    /\ rcall[c].at = "idle"
    /\ rcall' = [rcall EXCEPT ![c] =
                   [at |-> IF Candidates = <<>> THEN "done" ELSE "pick", todo |-> Candidates, tried |-> <<>>,
                    big |-> big, result |-> IF Candidates = <<>> THEN "no_model" ELSE "none",
                    streaming |-> streaming]]
    /\ UNCHANGED <<health, stamps, clock, ticket, admitted>>
\* supports_streaming, asked of what the registration narrows.
CanStream(i) == "streaming" \in NarrowCapabilities(Registration[Profiles[i].provider])
\* The next candidate that fits; a stream takes the first one and keeps it.
PickCandidate(c) ==
    /\ rcall[c].at = "pick"
    /\ LET todo == rcall[c].todo
           fitting == {k \in DOMAIN todo : FitsWindow(c, todo[k])}
       IN  IF fitting = {}
           THEN EndCall(c, IF rcall[c].tried = <<>> THEN "over_budget" ELSE "all_failed")
           ELSE IF rcall[c].streaming /\ ~CanStream(todo[Min(fitting)])
           THEN EndCall(c, "cannot_stream")
           ELSE rcall' = [rcall EXCEPT ![c].at = "acquire", ![c].todo = SubSeq(todo, Min(fitting), Len(todo))]
    /\ UNCHANGED <<health, stamps, clock, ticket, admitted>>
Chosen(c) == Profiles[rcall[c].todo[1]].provider

-----------------------------------------------------------------------------

(* Rate limit and meter. *)

\* The moments still in the window: the oldest leave until one is.
Live(p) == {i \in DOMAIN stamps[p] : stamps[p][i] > clock - Window}
Recent(p) == IF Live(p) = {} THEN <<>> ELSE SubSeq(stamps[p], Min(Live(p)), Len(stamps[p]))
\* acquire waits, outside its lock, until the window has room.
Acquire(c) ==
    /\ rcall[c].at = "acquire"
    /\ LET p == Chosen(c)
       IN  /\ Len(Recent(p)) < Limit
           /\ stamps' = [stamps EXCEPT ![p] = Append(Recent(p), clock)]
           /\ admitted' = [admitted EXCEPT ![p] = Append(@, clock)]
    /\ rcall' = [rcall EXCEPT ![c].at = "reserve"]
    /\ UNCHANGED <<health, clock, ticket>>
\* _reserve: a refusal ends the call, without a fallback.
ReserveUsage(c) ==
    /\ rcall[c].at = "reserve"
    /\ \/ ticket' = [ticket EXCEPT ![c] = "held"] /\ rcall' = [rcall EXCEPT ![c].at = "sent"]
       \/ ticket' = ticket /\ EndCall(c, "refused")
    /\ UNCHANGED <<health, stamps, clock, admitted>>

-----------------------------------------------------------------------------
(* What the provider does. *)
Sent(c) == rcall[c].at = "sent"

\* Mutant: the reservation of a failed call is kept.
ReleaseNot(c) == ticket' = ticket

\* _dispatch releases on every exception, a cancellation included.
ReleaseUsage(c) == ticket' = [ticket EXCEPT ![c] = "released"]

Recovered(h, slow) == [fails |-> 0, opened |-> Unopened, slow |-> slow]
Failed(h) == [h EXCEPT !.fails = @ + 1, !.opened = IF h.fails + 1 >= Threshold THEN clock ELSE @]
Answers(c, slow) ==
    /\ Sent(c) /\ ~rcall[c].streaming
    /\ health' = [health EXCEPT ![Chosen(c)] = Recovered(@, slow)]
    /\ rcall' = [rcall EXCEPT ![c].at = "settle"]
    /\ UNCHANGED <<stamps, clock, ticket, admitted>>
SettleUsage(c) ==
    /\ rcall[c].at = "settle"
    /\ \/ ticket' = [ticket EXCEPT ![c] = "settled"] /\ EndCall(c, "answered")
       \/ MeterMayFail /\ EndCall(c, "meter_failed") /\ ticket' = ticket
    /\ UNCHANGED <<health, stamps, clock, admitted>>
\* A provider error: another candidate is tried, unless the request itself is at fault.
Refuses(c, kind) ==
    /\ Sent(c) /\ ~rcall[c].streaming
    /\ ReleaseUsage(c)
    /\ CASE kind = "invalid_request" -> EndCall(c, "invalid_request") /\ UNCHANGED health
         [] kind = "invalid_tool_call" ->
              /\ rcall' = [rcall EXCEPT ![c].at = "pick", ![c].todo = Tail(@), ![c].tried = Append(@, rcall[c].todo[1])]
              /\ UNCHANGED health
         [] OTHER ->
              /\ rcall' = [rcall EXCEPT ![c].at = "pick", ![c].todo = Tail(@), ![c].tried = Append(@, rcall[c].todo[1])]
              /\ health' = [health EXCEPT ![Chosen(c)] = Failed(@)]
    /\ UNCHANGED <<stamps, clock, admitted>>
Interrupted(c) ==
    /\ Sent(c) /\ ReleaseUsage(c) /\ EndCall(c, "cancelled")
    /\ UNCHANGED <<health, stamps, clock, admitted>>
\* stream: the response settles; without one, for whatever reason, the finally clause releases.
StreamEnds(c, whole) ==
    /\ Sent(c) /\ rcall[c].streaming
    /\ IF whole THEN ticket' = [ticket EXCEPT ![c] = "settled"] ELSE ReleaseUsage(c)
    /\ EndCall(c, IF whole THEN "answered" ELSE "stream_failed")
    /\ UNCHANGED <<health, stamps, clock, admitted>>

Tick == clock < MaxClock /\ clock' = clock + 1 /\ UNCHANGED <<health, stamps, rcall, ticket, admitted>>

RouterNext ==
    \/ Tick
    \/ \E c \in ModelCalls :
         \/ \E big, streaming \in BOOLEAN : StartCall(c, big, streaming)
         \/ PickCandidate(c) \/ Acquire(c) \/ ReserveUsage(c)
         \/ \E slow \in 0..1 : Answers(c, slow)
         \/ SettleUsage(c) \/ Interrupted(c)
         \/ \E kind \in {"invalid_request", "invalid_tool_call", "error"} : Refuses(c, kind)
         \/ \E whole \in BOOLEAN : StreamEnds(c, whole)
RouterSpec == RouterInit /\ [][RouterNext]_routerVars

-----------------------------------------------------------------------------
RouterTypeOK ==
    /\ \A p \in Providers : health[p].fails \in Nat /\ health[p].opened \in {Unopened} \cup 0..MaxClock
    /\ \A c \in ModelCalls : ticket[c] \in {"none", "held", "settled", "released"}
    /\ clock \in 0..MaxClock

(* A reservation is held only while its call is with the provider: every
   way out of a dispatch settles or releases it, but a settlement that fails. *)
ReservationsClosed ==
    \A c \in ModelCalls :
        ticket[c] = "held" => rcall[c].at \in {"sent", "settle"} \/ rcall[c].result = "meter_failed"

(* A provider lets no more than its limit through in any window, however
   many calls wait for it. *)
RateHolds ==
    \A p \in Providers : \A i \in DOMAIN admitted[p] :
        i + Limit \in DOMAIN admitted[p] => admitted[p][i + Limit] - admitted[p][i] >= Window

(* A closed circuit has seen fewer failures in a row than open it, over calls
   that end in any order. *)
CircuitFollowsFailures ==
    \A p \in Providers : (health[p].opened = Unopened) = (health[p].fails < Threshold)

(* A call is sent only to a model that has what its profile requires. *)
CapableOnly ==
    \A c \in ModelCalls : Sent(c) =>
        Profiles[rcall[c].todo[1]].needs \subseteq Registration[Chosen(c)].caps

\* Concurrent calls share the providers soundly: usage that was reserved is closed, rates hold, circuits
\* follow the failures, and no call goes to a model that lacks what it needs.
RouterSafe ==
    /\ RouterTypeOK
    /\ ReservationsClosed
    /\ RateHolds
    /\ CircuitFollowsFailures
    /\ CapableOnly
=============================================================================
