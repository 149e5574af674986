----------------------------- MODULE Decisions ------------------------------
(***************************************************************************)
(* What decides about an action: the policies (policies/) and the person   *)
(* they send it to (approvals/service.py).  The two share no state.        *)
(***************************************************************************)
EXTENDS PolicyGate, Approvals

DecisionsSpec == PolicySpec /\ ApprovalSpec

\* No order of the policies loses a denial or a redaction, and a person's verdict is one and stays
\* (policies/engine.py, policies/bundles.py, approvals/service.py).
DecisionsSafe == PolicySafe /\ ApprovalSafe
=============================================================================
