----------------------------- MODULE PolicyGate ------------------------------
(***************************************************************************)
(* The policy engine (policies/engine.py), signed policy bundles           *)
(* (policies/bundles.py) and the boundaries a tool call passes             *)
(* (runtime/runtime.py, tools/executor.py).                                *)
(*                                                                         *)
(* A payload is the set of kinds of content it has: "secret", "pii",       *)
(* "address" (an e-mail address in a field whose schema declares it),      *)
(* "override", "marker" (privileged instructions), "banned" and "masked"   *)
(* (the patterns of bundles), "blank".                                     *)
(***************************************************************************)
EXTENDS Integers, Sequences, FiniteSets

CONSTANTS BundleConfigs,   \* lists of bundles a deployment may configure
          RequireSigned,   \* policies.require_signed
          TrustedKeys,
          GuardedAgents,   \* [policies, toolPolicies]: a set each, toolPolicies may be NoSelection
          GuardedTools,    \* [name, writes, permitted]
          Payloads,        \* payloads offered at a boundary
          OpenPoints,      \* boundaries whose policies fail open
          MaxPolicyErrors, \* errors in one evaluation
          NoSelection

ASSUME GateAssumption ==
    /\ RequireSigned \in BOOLEAN /\ MaxPolicyErrors \in Nat
    /\ \A f \in BundleConfigs : f \in Seq({f[i] : i \in DOMAIN f})
    /\ \A f \in BundleConfigs : \A i \in DOMAIN f : f[i].version \in Nat /\ f[i].minVersion \in Nat

ContentPoints == {"input", "before_retrieval", "after_retrieval", "before_model", "after_model",
                  "plan_tool", "before_tool", "after_tool", "final_response", "before_memory_write"}
PolicyPoints == ContentPoints \cup {"after_memory_write", "attachments"}

VARIABLES files,      \* the configured bundles
          startup,    \* "loading", "serving", "stopped", and how many bundles are loaded
          table,      \* the registered policies, in order
          mandatory,  \* the ones every agent runs
          ev,         \* the evaluation of a boundary
          tcall       \* a tool call, from its plan to its result
policyVars == <<files, startup, table, mandatory, ev, tcall>>

NoEval == [point |-> "none", agent |-> NoSelection, tool |-> NoSelection, first |-> {}, value |-> {}, at |-> 0,
           ran |-> {}, failed |-> {}, pending |-> FALSE, changed |-> FALSE, decision |-> "none"]
NoToolCall == [at |-> "none", agent |-> NoSelection, tool |-> NoSelection, args |-> {}, approved |-> FALSE,
               ran |-> {}, failed |-> {}]
BuiltIn == <<"secrets", "pii", "prompt_injection", "output_validation", "authorization", "side_effects">>
PolicyInit ==
    /\ files \in BundleConfigs
    /\ startup = [at |-> "loading", loaded |-> 0] /\ table = BuiltIn /\ mandatory = {"authorization", "side_effects"}
    /\ ev = NoEval /\ tcall = NoToolCall
PolicyTypeOK ==
    /\ startup.at \in {"loading", "serving", "stopped"} /\ startup.loaded \in 0..Len(files)
    /\ ev.point \in PolicyPoints \cup {"none"} /\ ev.at \in 0..Len(table) + 1
    /\ ev.decision \in {"none", "allow", "deny", "transform", "require_approval"}
    /\ mandatory \subseteq {table[i] : i \in DOMAIN table}

-----------------------------------------------------------------------------

(* Bundles. *)

\* _verify: a signature that is there must be of a trusted key, whatever require_signed says.
SignatureAccepted(b) == IF b.signer = "" THEN ~RequireSigned ELSE b.signer \in TrustedKeys
\* load_policy_bundle: validity, time and rollback.
BundleAccepted(b) ==
    /\ b.readable /\ SignatureAccepted(b) /\ b.valid
    /\ ~b.expired /\ ~b.future /\ b.version >= b.minVersion
\* load_policy_bundles and register(mandatory=True): any refusal, or a name listed twice, stops startup.
LoadBundle ==
    /\ startup.at = "loading" /\ startup.loaded < Len(files)
    /\ LET i == startup.loaded + 1
           b == files[i]
       IN  IF BundleAccepted(b) /\ \A j \in 1..i - 1 : files[j].name # b.name
           THEN /\ startup' = [startup EXCEPT !.loaded = i]
                /\ table' = Append(table, b.name) /\ mandatory' = mandatory \cup {b.name}
           ELSE startup' = [startup EXCEPT !.at = "stopped"] /\ UNCHANGED <<table, mandatory>>
    /\ UNCHANGED <<files, ev, tcall>>
Serve ==
    /\ startup.at = "loading" /\ startup.loaded = Len(files)
    /\ startup' = [startup EXCEPT !.at = "serving"] /\ UNCHANGED <<files, table, mandatory, ev, tcall>>

-----------------------------------------------------------------------------
(* What each policy decides of a value at a boundary: [action, value]. *)
Decision(action, v) == [action |-> action, value |-> v]
Allowed(v) == Decision("allow", v)
Rewrites(v, marks) == IF v \cap marks = {} THEN Allowed(v) ELSE Decision("transform", v \ marks)
SecretRedaction(v) == Rewrites(v, {"secret"})
\* An address a tool's schema declares stays, where the tool's schema is known.
PIIRedaction(point, tool, v) ==
    Rewrites(v, IF tool # NoSelection /\ point \in {"plan_tool", "before_tool", "after_tool", "before_model"}
                THEN {"pii"} ELSE {"pii", "address"})
PromptInjection(v) == IF "override" \in v THEN Decision("deny", v) ELSE Allowed(v)
OutputValidation(v) == IF v \cap {"marker", "blank"} # {} THEN Decision("deny", v) ELSE Allowed(v)
Authorization(tool, v) == IF tool.permitted THEN Allowed(v) ELSE Decision("deny", v)
SideEffects(tool, v) == IF tool.writes THEN Decision("require_approval", v) ELSE Allowed(v)
BundleOf(p) == files[CHOOSE i \in DOMAIN files : files[i].name = p]
BundleRules(b, point, tool, v) ==
    LET named == point \in {"plan_tool", "before_tool"} /\ tool # NoSelection
    IN  IF named /\ tool.name \in b.denyTools THEN Decision("deny", v)
        ELSE IF named /\ point = "plan_tool" /\ tool.name \in b.approvalTools THEN Decision("require_approval", v)
        ELSE IF point \in b.points /\ v \cap b.denies # {} THEN Decision("deny", v)
        ELSE IF point \in b.points THEN Rewrites(v, b.redacts)
        ELSE Allowed(v)
AppliesTo(p) ==
    CASE p \in {"secrets", "pii"} -> ContentPoints
      [] p = "prompt_injection" -> {"input"}
      [] p = "output_validation" -> {"after_model", "final_response"}
      [] p = "authorization" -> {"before_tool"}
      [] p = "side_effects" -> {"plan_tool"}
      [] OTHER -> LET b == BundleOf(p)
                  IN  b.points \cup (IF b.denyTools \cup b.approvalTools = {} THEN {} ELSE {"plan_tool", "before_tool"})
Verdict(p, point, tool, v) ==
    CASE p = "secrets" -> SecretRedaction(v)
      [] p = "pii" -> PIIRedaction(point, tool, v)
      [] p = "prompt_injection" -> PromptInjection(v)
      [] p = "output_validation" -> OutputValidation(v)
      [] p = "authorization" -> Authorization(tool, v)
      [] p = "side_effects" -> SideEffects(tool, v)
      [] OTHER -> BundleRules(BundleOf(p), point, tool, v)

-----------------------------------------------------------------------------

(* CompositePolicyEngine.evaluate *)

\* Mandatory policies run whatever the agent selects; without an agent all run.
SelectedPolicies(agent, point) ==
    IF agent = NoSelection THEN {table[i] : i \in DOMAIN table}
    ELSE mandatory \cup (IF agent.toolPolicies # NoSelection /\ point \in {"before_tool", "after_tool"}
                         THEN agent.toolPolicies ELSE agent.policies)
Evaluating == ev.point # "none" /\ ev.decision = "none"
CurrentPolicy == table[ev.at]
Runs(p) == p \in SelectedPolicies(ev.agent, ev.point) /\ ev.point \in AppliesTo(p)
EvalStart(point, agent, tool, v) ==
    [NoEval EXCEPT !.point = point, !.agent = agent, !.tool = tool, !.first = v, !.value = v, !.at = 1]
PassedOver ==
    /\ Evaluating /\ ev.at <= Len(table) /\ ~Runs(CurrentPolicy)
    /\ ev' = [ev EXCEPT !.at = @ + 1]
    /\ UNCHANGED <<files, startup, table, mandatory, tcall>>

\* Each policy sees what the ones before it made of the payload.
Given(e) == e.value

\* Mutant: a required approval is answered before the other policies are asked.
AsksAtOnce(e) == "require_approval"

\* An approval is remembered and the remaining policies still run: a denial wins.
AfterApproval(e) == "none"
Decided ==
    /\ Evaluating /\ ev.at <= Len(table) /\ Runs(CurrentPolicy)
    /\ LET d == Verdict(CurrentPolicy, ev.point, ev.tool, Given(ev))
           e == [ev EXCEPT !.at = @ + 1, !.ran = @ \cup {CurrentPolicy}]
       IN  ev' = CASE d.action = "deny" -> [e EXCEPT !.decision = "deny"]
                   [] d.action = "require_approval" -> [e EXCEPT !.pending = TRUE, !.decision = AfterApproval(e)]
                   [] d.action = "transform" -> [e EXCEPT !.value = d.value, !.changed = TRUE]
                   [] OTHER -> e
    /\ UNCHANGED <<files, startup, table, mandatory, tcall>>
\* A policy that raises or takes too long: the boundary's fail mode decides.
PolicyFails ==
    /\ Evaluating /\ ev.at <= Len(table) /\ Runs(CurrentPolicy) /\ Cardinality(ev.failed) < MaxPolicyErrors
    /\ ev' = [ev EXCEPT !.at = @ + 1, !.failed = @ \cup {CurrentPolicy},
                        !.decision = IF ev.point \in OpenPoints THEN "none" ELSE "deny"]
    /\ UNCHANGED <<files, startup, table, mandatory, tcall>>
Concluded ==
    /\ Evaluating /\ ev.at > Len(table)
    /\ ev' = [ev EXCEPT !.decision = IF ev.pending THEN "require_approval"
                                     ELSE IF ev.changed THEN "transform" ELSE "allow"]
    /\ UNCHANGED <<files, startup, table, mandatory, tcall>>

-----------------------------------------------------------------------------
(* Boundaries. *)
\* _policy_value at a boundary of a run: one evaluation, from input to memory.
CheckBoundary(agent, point, v) ==
    /\ startup.at = "serving" /\ ev.point = "none" /\ tcall.at = "none" /\ point \notin {"plan_tool", "before_tool", "after_tool"}
    /\ ev' = EvalStart(point, agent, NoSelection, v)
    /\ UNCHANGED <<files, startup, table, mandatory, tcall>>
\* _admit_tool_call: every registered policy runs, the agent is not passed.
PlanTool(agent, tool, v) ==
    /\ startup.at = "serving" /\ ev.point = "none" /\ tcall.at = "none"
    /\ tcall' = [NoToolCall EXCEPT !.at = "plan", !.agent = agent, !.tool = tool, !.args = v]
    /\ ev' = EvalStart("plan_tool", NoSelection, tool, v)
    /\ UNCHANGED <<files, startup, table, mandatory>>
ToBeforeTool ==
    /\ tcall' = [tcall EXCEPT !.at = "before"]
    /\ ev' = EvalStart("before_tool", tcall.agent, tcall.tool, tcall.args)
Planned ==
    /\ tcall.at = "plan" /\ ev.decision # "none"
    /\ CASE ev.decision = "deny" -> tcall' = [tcall EXCEPT !.at = "refused"] /\ UNCHANGED ev
         [] ev.decision = "require_approval" /\ ~tcall.approved -> tcall' = [tcall EXCEPT !.at = "asked"] /\ UNCHANGED ev
         [] OTHER -> ToBeforeTool
    /\ UNCHANGED <<files, startup, table, mandatory>>
\* After the answer the call is planned again.
Answered(yes) ==
    /\ tcall.at = "asked"
    /\ tcall' = [tcall EXCEPT !.at = IF yes THEN "plan" ELSE "refused", !.approved = yes]
    /\ ev' = IF yes THEN EvalStart("plan_tool", NoSelection, tcall.tool, tcall.args) ELSE ev
    /\ UNCHANGED <<files, startup, table, mandatory>>

\* The executor runs a call only on "allow": changed arguments refuse it.
MayRun(decision) == decision = "allow"
BeforeTool ==
    /\ tcall.at = "before" /\ ev.decision # "none"
    /\ tcall' = IF MayRun(ev.decision)
                THEN [tcall EXCEPT !.at = "running", !.ran = ev.ran, !.failed = ev.failed]
                ELSE [tcall EXCEPT !.at = "refused"]
    /\ UNCHANGED <<files, startup, table, mandatory, ev>>
ToolReturns(v) ==
    /\ tcall.at = "running"
    /\ tcall' = [tcall EXCEPT !.at = "after"] /\ ev' = EvalStart("after_tool", tcall.agent, tcall.tool, v)
    /\ UNCHANGED <<files, startup, table, mandatory>>
\* The check of a result: the value of the policies goes into the history, which the next model call checks again.
AfterTool ==
    /\ tcall.at = "after" /\ ev.decision # "none"
    /\ IF ev.decision \in {"allow", "transform"}
       THEN tcall' = [tcall EXCEPT !.at = "history"] /\ ev' = EvalStart("before_model", tcall.agent, tcall.tool, ev.value)
       ELSE tcall' = [tcall EXCEPT !.at = "refused"] /\ UNCHANGED ev
    /\ UNCHANGED <<files, startup, table, mandatory>>
\* The boundary is passed or the call over: the next one.
Finish ==
    /\ ev.decision # "none" /\ tcall.at \in {"none", "refused", "history"}
    /\ ev' = NoEval /\ tcall' = NoToolCall /\ UNCHANGED <<files, startup, table, mandatory>>

PolicyNext ==
    \/ LoadBundle \/ Serve \/ PassedOver \/ Decided \/ PolicyFails \/ Concluded
    \/ \E a \in GuardedAgents, v \in Payloads :
         \/ \E p \in PolicyPoints : CheckBoundary(a, p, v)
         \/ \E t \in GuardedTools : PlanTool(a, t, v)
    \/ Planned \/ BeforeTool \/ AfterTool \/ Finish
    \/ \E yes \in BOOLEAN : Answered(yes)
    \/ \E v \in Payloads : ToolReturns(v)
PolicySpec == PolicyInit /\ [][PolicyNext]_policyVars

-----------------------------------------------------------------------------
(* A person is asked only about a call no policy refuses, wherever in the
   order the policy stands and whatever the others changed or failed at. *)
DenialBeforeApproval ==
    ev.decision = "require_approval" =>
        \A i \in DOMAIN table : Runs(table[i]) /\ table[i] \notin ev.failed =>
            Verdict(table[i], ev.point, ev.tool, ev.value).action # "deny"

(* What passes a boundary has nothing left that a policy of the boundary
   removes: no policy brings back what an earlier one took out. *)
RedactionsKept ==
    ev.decision \in {"allow", "transform"} =>
        \A i \in DOMAIN table : Runs(table[i]) /\ table[i] \notin ev.failed =>
            Verdict(table[i], ev.point, ev.tool, ev.value).action # "transform"

(* A tool runs only after every mandatory policy looked at the call, the
   bundles' too, or failed where the boundary is set to fail open. *)
MandatoryRan ==
    tcall.at = "running" =>
        \A p \in mandatory : "before_tool" \in AppliesTo(p) =>
            p \in tcall.ran \/ (p \in tcall.failed /\ "before_tool" \in OpenPoints)

(* The arguments a tool runs with are the ones that were planned and
   approved, and none of the policies of the call would change them. *)
ArgumentsClean ==
    tcall.at = "running" =>
        /\ \A p \in tcall.ran : Verdict(p, "before_tool", tcall.tool, tcall.args).action = "allow"
        /\ tcall.tool.writes => tcall.approved \/ "plan_tool" \in OpenPoints

(* The process serves only with every configured bundle in force, none of
   them with a signature that no trusted key made. *)
BundlesInForce ==
    startup.at = "serving" =>
        \A i \in DOMAIN files :
            /\ files[i].name \in mandatory
            /\ files[i].signer \in TrustedKeys \cup (IF RequireSigned THEN {} ELSE {""})

\* No order of the policies loses a denial or a redaction, and a tool runs only with what every mandatory
\* policy has seen and the bundles in force.
PolicySafe ==
    /\ PolicyTypeOK
    /\ DenialBeforeApproval
    /\ RedactionsKept
    /\ MandatoryRan
    /\ ArgumentsClean
    /\ BundlesInForce
=============================================================================
