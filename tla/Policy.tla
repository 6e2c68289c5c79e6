------------------------------- MODULE Policy -------------------------------
(***************************************************************************)
(* The decision path of one proposed event: the rule-based classifier      *)
(* (core/classifier.py), the guards of delegation rules                    *)
(* (core/conditions.py) and the policy engine (core/policy.py).  All of it *)
(* is a pure function of the event, the agent's stored level and the rule  *)
(* that was found to match.                                                *)
(*                                                                         *)
(* An event is a record [agent, workflow, authority, requires_execution,   *)
(* metadata, evidence, confidence, risky_text]: evidence is the number of  *)
(* items, confidence is in percent, risky_text says whether a lexical      *)
(* pattern matches the free text.  A rule is a record [agent, workflow,    *)
(* authority, level, conditions, guards, sample_rate, active], sample_rate *)
(* in percent.                                                             *)
(***************************************************************************)
EXTENDS Ontology, Scope

AutonomyStatus ==
    {"allowed", "approval_required", "sample_review", "escalate", "blocked"}

\* The statuses under which the control plane mints a capability token.
Proceeding == {"allowed", "sample_review"}

Flag(event, key) == Get(event.metadata, key) = TRUE

(***************************************************************************)
(* The classifier can only raise the base risk of the authority class.     *)
(***************************************************************************)
RaiseIf(condition, risk, level) == IF condition THEN max_risk(risk, level) ELSE risk

ClassifiedRisk(event) ==
    LET consequences == consequences_for(event.authority)
        r1 == RaiseIf(event.risky_text, base_risk_for(event.authority), "high")
        r2 == RaiseIf(/\ Flag(event, "external_effect")
                      /\ "external_facing" \notin consequences, r1, "medium")
        r3 == RaiseIf(/\ Flag(event, "irreversible")
                      /\ "irreversible" \notin consequences, r2, "critical")
        r4 == RaiseIf(event.confidence < 50 /\ event.requires_execution, r3, "medium")
    IN  RaiseIf(event.evidence = 0 /\ event.requires_execution, r4, "medium")

(***************************************************************************)
(* requires_approval_if: a guard with an unknown name counts as fired.     *)
(***************************************************************************)
GUARDS == {"missing_source_evidence", "low_confidence", "outside_known_workflow",
           "external_effect", "irreversible", "anomaly_detected",
           "policy_boundary_matched"}

\* Python truth of metadata.get("_approved_workflows", []): a set here.
ApprovedWorkflows(event) ==
    IF "_approved_workflows" \in DOMAIN event.metadata
      THEN event.metadata["_approved_workflows"] ELSE {}

Fires(guard, event) ==
    CASE guard = "missing_source_evidence" -> event.evidence = 0
      [] guard = "low_confidence" -> event.confidence < 70
      [] guard = "outside_known_workflow" ->
             /\ ApprovedWorkflows(event) # {}
             /\ event.workflow \notin ApprovedWorkflows(event)
      [] guard = "external_effect" -> Flag(event, "external_effect")
      [] guard = "irreversible" -> Flag(event, "irreversible")
      [] guard = "anomaly_detected" -> Flag(event, "anomaly")
      [] guard = "policy_boundary_matched" -> Flag(event, "_policy_boundary_matched")

\* A bug: unknown guard names are skipped.
evaluate_known_guards(guards, event) ==
    {g \in guards : g \in GUARDS /\ Fires(g, event)}

evaluate_guards(guards, event) ==
    {g \in guards : g \notin GUARDS \/ Fires(g, event)}

(***************************************************************************)
(* Hard boundary rules: the first one, in list order, that matches.  A     *)
(* rule with no authority class is about every class.                      *)
(***************************************************************************)
Boundary(authorities, status, risk) ==
    [authorities |-> authorities, conditions |-> << >>, status |-> status,
     risk |-> risk]

\* A bug: one class of the pricing rule is forgotten.
boundary_rules_without_commitments ==
    << Boundary({"change_legal_position", "bind_organization"}, "blocked", "critical"),
       Boundary({"transfer_value", "spend_money"}, "escalate", "critical"),
       Boundary({"offer_pricing_or_discount"}, "approval_required", "high"),
       Boundary({"delete_data", "modify_production_system"}, "escalate", "critical"),
       Boundary({"grant_access", "revoke_access"}, "approval_required", "high") >>

default_boundary_rules ==
    << Boundary({"change_legal_position", "bind_organization"}, "blocked", "critical"),
       Boundary({"transfer_value", "spend_money"}, "escalate", "critical"),
       Boundary({"offer_pricing_or_discount", "commit_commercial_position"},
                "approval_required", "high"),
       Boundary({"delete_data", "modify_production_system"}, "escalate", "critical"),
       Boundary({"grant_access", "revoke_access"}, "approval_required", "high") >>

BoundaryMatches(boundary, event) ==
    /\ boundary.authorities = {} \/ event.authority \in boundary.authorities
    /\ \A key \in DOMAIN boundary.conditions :
          Get(event.metadata, key) = boundary.conditions[key]

BoundariesMatching(boundaries, event) ==
    {i \in DOMAIN boundaries : BoundaryMatches(boundaries[i], event)}

(***************************************************************************)
(* The ladder: what an effective level means for an event.                 *)
(***************************************************************************)
Decision(status, risk, sample_rate) ==
    [status |-> status, risk |-> risk, sample_rate |-> sample_rate,
     guards |-> {}]

status_for_level(event, effective, risk, sample) ==
    LET allowed(rate) == Decision("allowed", risk, rate)
        unlessAnomaly(rate) == IF Flag(event, "anomaly")
                                 THEN Decision("escalate", risk, 0)
                                 ELSE allowed(rate)
        approval == Decision("approval_required", risk, 0)
    IN  IF is_non_state(event.authority) /\ ~event.requires_execution THEN allowed(0)
        ELSE CASE effective = DELEGATED_AUTHORITY ->
                      unlessAnomaly(IF sample < 5 THEN 5 ELSE sample)
               [] effective = EXCEPTION_BASED_SUPERVISION -> unlessAnomaly(0)
               [] effective = CONDITIONAL_AUTONOMY -> allowed(0)
               [] effective = EXECUTE_WITH_SAMPLING ->
                      Decision("sample_review", risk, IF sample = 0 THEN 20 ELSE sample)
               [] effective <= DRAFT ->
                      IF event.requires_execution THEN approval ELSE allowed(0)
               [] OTHER -> approval

(***************************************************************************)
(* PolicyEngine.evaluate.  rule is None when no rule matched.              *)
(***************************************************************************)
\* A bug: the comparison is the wrong way round.
RuleLowers(level, rule) == rule # None /\ rule.level < level

RuleLifts(level, rule) == rule # None /\ rule.level > level

EffectiveLevel(event, level, rule) ==
    LET candidate == IF RuleLifts(level, rule) THEN rule.level ELSE level
        ceiling == autonomy_ceiling_for(event.authority)
    IN  IF candidate < ceiling THEN candidate ELSE ceiling

Evaluate(boundaries, event, level, rule) ==
    LET risk == ClassifiedRisk(event)
        hit == BoundariesMatching(boundaries, event)
        fired == IF RuleLifts(level, rule) THEN evaluate_guards(rule.guards, event)
                                           ELSE {}
    IN  IF hit # {}
          THEN LET b == boundaries[CHOOSE i \in hit : \A j \in hit : i <= j]
               IN  Decision(b.status, max_risk(risk, b.risk), 0)
        ELSE IF fired # {}
          THEN [Decision("approval_required", risk, 0) EXCEPT !.guards = fired]
        ELSE status_for_level(event, EffectiveLevel(event, level, rule), risk,
                              IF rule = None THEN 0 ELSE rule.sample_rate)

=============================================================================
