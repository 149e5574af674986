------------------------------ MODULE Boundary ------------------------------
(***************************************************************************)
(* The two ends of the Runtime.  What a client meets: the HTTP API that    *)
(* admits its requests (app.py, rate_limiting.py) and the stream of a      *)
(* run's events that it follows (bus.py, streaming.py).  What a call of a  *)
(* model goes through: the router with its meter (models/base.py,          *)
(* metering.py) and the provider's wire (models/providers/).  The four     *)
(* share no state.                                                         *)
(***************************************************************************)
EXTENDS ApiGateway, EventStream, ModelRouter, ProviderWire

ClientsSpec == GateSpec /\ StreamSpec
ModelPathSpec == RouterSpec /\ WireSpec

\* What a client gets from the API: its requests are admitted, owned and answered rightly, and the
\* stream of events it follows is whole (app.py, rate_limiting.py, bus.py, streaming.py).
ClientsSafe == GateSafe /\ StreamSafe

\* A call of a model is metered, limited and sent where it can be answered, and what the provider
\* is sent and says means what the Runtime means (models/base.py, metering.py, models/providers/).
ModelCallsSafe == RouterSafe /\ WireSafe
=============================================================================
